---- MODULE Spec2Model ----
(***************************************************************************)
(* Shared whiteboard: the replica conflict-resolution engine (CRDTManager) *)
(* and the synchronisation transport (WebSocketService).                   *)
(*                                                                         *)
(* Part 1 models CRDTManager: the element map, the per-author counters and *)
(* applyOperation with its resolver.  Part 2 models the transport.         *)
(***************************************************************************)
EXTENDS Integers, Sequences, FiniteSets, TLC

VARIABLES
    \* CRDTManager of the local replica
    elements,        \* Map<string, WhiteboardElement>
    vector,          \* Map<string, number>, the per-author counters
    \* record of the calls made on it
    phase,           \* "init", then the name of the last call
    log,             \* the applyOperation calls made: <<[op, result], ...>>
    baseElements,    \* the store before the first logged call
    baseVector,
    prevElements,    \* the store before the last call
    prevVector,
    \* a second replica (another participant's CRDTManager) and the delivery
    \* of one set of operations to both
    peerElements,
    peerVector,
    opSet,
    delivered,       \* sequence of the operations applied by the local replica
    peerDelivered,
    \* WebSocketService
    socket,               \* this.socket: 0 for null, else an index of sockets
    roomId,
    currentUrl,
    reconnectAttempts,
    heartbeatInterval,    \* time left of the interval the field refers to, or NoTimer
    syncRequestInterval,
    isDrawing,
    drawingEndTimeout,    \* "null", or "set" once a timeout id is stored
    pendingOperations,
    \* the environment of the service
    sockets,              \* the WebSocket objects created: <<[room, readyState], ...>>
    reconnectTimers,      \* the pending setTimeout callbacks of attemptReconnect
    drawingEndTimer,      \* time left of the pending drawing-end timeout, or NoTimer
    \* record of the run
    event,                \* the last handler that ran: [name, room]
    flushed,              \* whether it ended a drawing session
    emitted,              \* the frames it passed to socket.send, in order
    opened,               \* the sockets it created
    armed,                \* the reconnect delays it scheduled, in ms
    closeCount,           \* close events handled for the current room since the
                          \* counter was last reset (by an open or a switchRoom)
    burst,                \* sendOperation calls since the buffer was last emptied
    sinceSend,            \* time since the last sendOperation call while its timeout is pending
    switchCount,          \* switchRoom calls made
    sessionFirst,         \* the socket the last connect or switchRoom call created
    \* the objects of the heap that a CRDTManager and its caller share
    heap,                 \* the element objects allocated: <<element, ...>>
    refs,                 \* this.elements as the Map holds it: id -> index of heap
    handed,               \* the indices of heap the caller holds a reference to
    returned,             \* the value the last getter returned: [kind, value]
    \* the Whiteboard component and the messages its handler receives
    whiteboardElements,   \* the state elements of the component (useState)
    lastMessage,          \* the message the handler was called with in the last step
    handled,              \* the messages handled so far
    undecodable,          \* the frames received so far that JSON.parse rejected
    \* the calls made on a CRDTManager
    overwritten           \* whether setVectorClock was called since the last reset

crdtVars == <<elements, vector, phase, log, baseElements, baseVector,
              prevElements, prevVector>>
replicaVars == <<peerElements, peerVector, opSet, delivered, peerDelivered>>
serviceVars == <<socket, roomId, currentUrl, reconnectAttempts, heartbeatInterval,
                 syncRequestInterval, isDrawing, drawingEndTimeout, pendingOperations>>
envVars == <<sockets, reconnectTimers, drawingEndTimer>>
runVars == <<event, flushed, emitted, opened, armed, closeCount, burst, sinceSend,
             switchCount, sessionFirst>>
transportVars == <<serviceVars, envVars, runVars>>
aliasVars == <<heap, refs, handed, returned>>
boardVars == <<whiteboardElements, lastMessage, handled, undecodable>>
managerVars == <<overwritten>>
vars == <<crdtVars, replicaVars, transportVars, aliasVars, boardVars, managerVars>>

(***************************************************************************)
(* Bounds of the model.                                                    *)
(***************************************************************************)
\* timestamps are multiples of TickMs, 0 .. MaxTick * TickMs
TickMs == 250
MaxTick == 6
\* number of operations in the set delivered to the two replicas
MaxOpSet == 2
\* deliveries each replica may receive (an operation may arrive twice)
MaxDeliveries == 3
\* WebSocket objects one run of the service creates
MaxSockets == 2
\* the same, in the runs where every connection attempt fails
MaxFailedSockets == 8
\* sendOperation calls in one drawing session
MaxSends == 2
\* switchRoom calls in one run
MaxSwitches == 1
\* the same, in the runs where every connection attempt fails
MaxFailedSwitches == 2

(***************************************************************************)
(* Optional values of the JavaScript objects: undefined is the empty       *)
(* sequence, a present value v is <<v>>.                                   *)
(***************************************************************************)
Undefined == <<>>
Some(v) == <<v>>
IsDefined(o) == o # Undefined
\* (o || d) for an optional number: undefined and 0 are both falsy, and 0 || d = d
OrElse(o, d) == IF IsDefined(o) /\ o[1] # 0 THEN o[1] ELSE d
Abs(n) == IF n < 0 THEN -n ELSE n

(***************************************************************************)
(* Author ids are JavaScript strings; ">" on strings compares the UTF-16   *)
(* code units lexicographically.                                           *)
(***************************************************************************)
UserIds == {"alice", "bob"}
CodeUnits(u) ==
    CASE u = "alice" -> <<97, 108, 105, 99, 101>>
      [] u = "bob"   -> <<98, 111, 98>>
RECURSIVE SeqGreater(_, _)
SeqGreater(a, b) ==
    IF a = <<>> THEN FALSE
    ELSE IF b = <<>> THEN TRUE
    ELSE IF Head(a) # Head(b) THEN Head(a) > Head(b)
    ELSE SeqGreater(Tail(a), Tail(b))
StrGreater(u, v) == SeqGreater(CodeUnits(u), CodeUnits(v))

(***************************************************************************)
(* Element payloads (DrawingElementData | MarkdownElementData).  One       *)
(* record shape holds both; a field the variant lacks is Undefined.        *)
(* content is the sequence of characters of the string.                    *)
(***************************************************************************)
Pt(x, y) == [x |-> x, y |-> y]
NoData == [tool |-> "none", path |-> Undefined, points |-> Undefined,
           startX |-> Undefined, startY |-> Undefined,
           endX |-> Undefined, endY |-> Undefined, content |-> Undefined]
Stroke(tool, path, points) == [NoData EXCEPT !.tool = tool, !.path = path, !.points = points]
Shape(tool, sx, sy, ex, ey) ==
    [NoData EXCEPT !.tool = tool, !.startX = sx, !.startY = sy, !.endX = ex, !.endY = ey]
Markdown(content) == [NoData EXCEPT !.content = Some(content)]

DrawingPayloads ==
    { Stroke("pen", Some(<<Pt(0, 0), Pt(1, 1), Pt(2, 2)>>), Undefined),
      Stroke("pen", Some(<<Pt(9, 9)>>), Undefined),
      Stroke("pen", Some(<<Pt(50, 50), Pt(51, 51), Pt(52, 52)>>), Undefined),
      Stroke("eraser", Undefined, Some(<<Pt(0, 10), Pt(1, 11), Pt(2, 12)>>)),
      Stroke("eraser", Some(<<>>), Some(<<Pt(50, 50)>>)),
      Shape("rectangle", Some(0), Some(0), Some(10), Some(10)),
      Shape("rectangle", Some(0), Some(0), Undefined, Undefined),
      Shape("rectangle", Some(0), Some(0), Some(3), Some(30)),
      Shape("circle", Some(5), Some(5), Some(20), Some(20)),
      Shape("circle", Some(5), Some(5), Some(11), Some(10)),
      Shape("line", Some(0), Some(0), Some(0), Some(0)),
      Shape("line", Some(0), Some(0), Undefined, Undefined),
      Shape("text", Undefined, Undefined, Undefined, Undefined) }
MarkdownPayloads ==
    { Markdown(<<"h", "i">>), Markdown(<<" ", "a", " ">>),
      Markdown(<<" ", " ">>), Markdown(<<>>), NoData }

ElementIds == {"e1", "e2"}
Timestamps == { TickMs * k : k \in 0..MaxTick }

Element(id, type, data, ts, user, deleted) ==
    [id |-> id, type |-> type, data |-> data, timestamp |-> ts,
     userId |-> user, deleted |-> deleted]

\* the non-deleted operations on the ids I
Upserts(I) ==
    { Element(id, "drawing", d, ts, u, FALSE) :
        id \in I, d \in DrawingPayloads, ts \in Timestamps, u \in UserIds }
    \cup
    { Element(id, "markdown", d, ts, u, FALSE) :
        id \in I, d \in MarkdownPayloads, ts \in Timestamps, u \in UserIds }
    \cup
    { Element(id, "sticky", NoData, ts, u, FALSE) :
        id \in I, ts \in Timestamps, u \in UserIds }
\* the operations with deleted = true on the ids I
Deletes(I) ==
    { Element(id, "drawing", d, ts, u, TRUE) :
        id \in I,
        d \in { Shape("rectangle", Some(0), Some(0), Some(10), Some(10)),
                Shape("rectangle", Some(0), Some(0), Undefined, Undefined) },
        ts \in Timestamps, u \in UserIds }
    \cup
    { Element(id, "markdown", Markdown(<<"h", "i">>), ts, u, TRUE) :
        id \in I, ts \in Timestamps, u \in UserIds }
Operations(I) == Upserts(I) \cup Deletes(I)

(***************************************************************************)
(* CRDTManager: pure part.                                                 *)
(***************************************************************************)
IsWhitespace(c) == c \in {" ", "\t", "\n"}
RECURSIVE TrimStart(_)
TrimStart(s) ==
    IF s # <<>> /\ IsWhitespace(Head(s)) THEN TrimStart(Tail(s)) ELSE s
RECURSIVE TrimEnd(_)
TrimEnd(s) ==
    IF s # <<>> /\ IsWhitespace(s[Len(s)]) THEN TrimEnd(SubSeq(s, 1, Len(s) - 1)) ELSE s
Trim(s) == TrimEnd(TrimStart(s))

\* data.path || data.points || []   (an empty array is truthy)
PathOf(data) ==
    IF IsDefined(data.path) THEN data.path[1]
    ELSE IF IsDefined(data.points) THEN data.points[1]
    ELSE <<>>
\* path[0] || { x: 0, y: 0 }
FirstPos(path) == IF Len(path) > 0 THEN path[1] ELSE Pt(0, 0)

IsStrokeTool(tool) == tool = "pen" \/ tool = "eraser"

isElementCompleteAtThreshold(element) ==
    CASE element.type = "drawing" ->
           LET data == element.data IN
           CASE IsStrokeTool(data.tool) -> Len(PathOf(data)) > 2
             [] data.tool \in {"rectangle", "circle"} ->
                  /\ IsDefined(data.startX) /\ IsDefined(data.startY)
                  /\ IsDefined(data.endX) /\ IsDefined(data.endY)
                  /\ Abs(OrElse(data.endX, 0) - OrElse(data.startX, 0)) >= 5
                  /\ Abs(OrElse(data.endY, 0) - OrElse(data.startY, 0)) >= 5
             [] data.tool = "line" ->
                  /\ IsDefined(data.startX) /\ IsDefined(data.startY)
                  /\ IsDefined(data.endX) /\ IsDefined(data.endY)
             [] OTHER -> TRUE
      [] element.type = "markdown" ->
           /\ IsDefined(element.data.content)
           /\ Trim(element.data.content[1]) # <<>>
      [] OTHER -> TRUE

isElementComplete(element) ==
    CASE element.type = "drawing" ->
           LET data == element.data IN
           CASE IsStrokeTool(data.tool) -> Len(PathOf(data)) > 2
             [] data.tool \in {"rectangle", "circle"} ->
                  /\ IsDefined(data.startX) /\ IsDefined(data.startY)
                  /\ IsDefined(data.endX) /\ IsDefined(data.endY)
                  /\ Abs(OrElse(data.endX, 0) - OrElse(data.startX, 0)) > 5
                  /\ Abs(OrElse(data.endY, 0) - OrElse(data.startY, 0)) > 5
             [] data.tool = "line" ->
                  /\ IsDefined(data.startX) /\ IsDefined(data.startY)
                  /\ IsDefined(data.endX) /\ IsDefined(data.endY)
             [] OTHER -> TRUE
      [] element.type = "markdown" ->
           /\ IsDefined(element.data.content)
           /\ Trim(element.data.content[1]) # <<>>
      [] OTHER -> TRUE

areConcurrentWithinSecond(element1, element2) ==
    Abs(element1.timestamp - element2.timestamp) <= 1000
areConcurrent(element1, element2) ==
    Abs(element1.timestamp - element2.timestamp) <= 500

\* return newElement.timestamp > existingElement.timestamp
newerTimestamp(newElement, existingElement) ==
    newElement.timestamp > existingElement.timestamp

authorTiebreakReversed(newElement, existingElement) ==
    StrGreater(existingElement.userId, newElement.userId)
authorTiebreakOrEqual(newElement, existingElement) ==
    ~StrGreater(existingElement.userId, newElement.userId)
\* return newElement.userId > existingElement.userId
authorTiebreak(newElement, existingElement) ==
    StrGreater(newElement.userId, existingElement.userId)

resolveStrokesByPosition(newElement, existingElement) ==
    LET newPos == FirstPos(PathOf(newElement.data))
        existingPos == FirstPos(PathOf(existingElement.data))
    IN IF /\ Abs(newPos.x - existingPos.x) < 10
          /\ Abs(newPos.y - existingPos.y) < 10
       THEN newerTimestamp(newElement, existingElement)
       ELSE TRUE
resolveStrokesByTimestamp(newElement, existingElement) ==
    newerTimestamp(newElement, existingElement)
\* the pen/eraser branch, entered when both elements are drawings and the
\* new one is a stroke
resolveStrokes(newElement, existingElement) ==
    IF newElement.userId = existingElement.userId
    THEN newerTimestamp(newElement, existingElement)
    ELSE LET newPos == FirstPos(PathOf(newElement.data))
             existingPos == FirstPos(PathOf(existingElement.data))
         IN IF /\ Abs(newPos.x - existingPos.x) < 10
               /\ Abs(newPos.y - existingPos.y) < 10
            THEN newerTimestamp(newElement, existingElement)
            ELSE TRUE

completenessIgnored(newElement, existingElement) == FALSE
\* "if one element is complete and the other isn't": the test made for a new
\* drawing element whose tool is neither pen nor eraser
completenessDecides(newElement, existingElement) ==
    /\ newElement.type = "drawing"
    /\ ~IsStrokeTool(newElement.data.tool)
    /\ isElementComplete(newElement) # isElementComplete(existingElement)

resolveConcurrentConflict(newElement, existingElement) ==
    IF /\ newElement.type = "drawing" /\ existingElement.type = "drawing"
       /\ IsStrokeTool(newElement.data.tool)
    THEN resolveStrokes(newElement, existingElement)
    ELSE IF completenessDecides(newElement, existingElement)
    THEN isElementComplete(newElement)
    ELSE authorTiebreak(newElement, existingElement)

largeGapAccepts(newElement, existingElement) == TRUE
largeGapOlderWins(newElement, existingElement) ==
    newElement.timestamp < existingElement.timestamp
\* the branch for timestamps more than a second apart
largeGapDecision(newElement, existingElement) ==
    newElement.timestamp > existingElement.timestamp

shouldApplyOperation(newElement, existingElement) ==
    LET timeDiff == Abs(newElement.timestamp - existingElement.timestamp) IN
    IF timeDiff > 1000
    THEN largeGapDecision(newElement, existingElement)
    ELSE IF areConcurrent(newElement, existingElement)
    THEN resolveConcurrentConflict(newElement, existingElement)
    ELSE IF newElement.timestamp > existingElement.timestamp THEN TRUE
    ELSE IF newElement.timestamp = existingElement.timestamp
    THEN StrGreater(newElement.userId, existingElement.userId)
    ELSE FALSE

updateVectorClockRestarts(vec, userId) ==
    [u \in DOMAIN vec \cup {userId} |-> IF u = userId THEN 1 ELSE vec[u]]
updateVectorClockLamport(vec, userId) ==
    LET top == CHOOSE n \in {vec[u] : u \in DOMAIN vec} \cup {0} :
                   \A u \in DOMAIN vec : vec[u] <= n
    IN [u \in DOMAIN vec \cup {userId} |-> IF u = userId THEN top + 1 ELSE vec[u]]
\* the per-author counters are a Map: a function on the authors seen so far
updateVectorClock(vec, userId) ==
    LET currentValue == IF userId \in DOMAIN vec THEN vec[userId] ELSE 0
    IN [u \in DOMAIN vec \cup {userId} |-> IF u = userId THEN currentValue + 1 ELSE vec[u]]

MapSet(els, id, element) ==
    [i \in DOMAIN els \cup {id} |-> IF i = id THEN element ELSE els[i]]
MapDelete(els, id) == [i \in DOMAIN els \ {id} |-> els[i]]

deleteAppliesOrEqual(element, existingElement) ==
    element.timestamp >= existingElement.timestamp
\* element.timestamp > existingElement.timestamp, the test a delete makes
deleteApplies(element, existingElement) ==
    element.timestamp > existingElement.timestamp

rejectCounted(els, vec, element) ==
    [elements |-> els, vector |-> updateVectorClock(vec, element.userId), result |-> FALSE]
\* return false: neither this.elements nor this.vector was touched
reject(els, vec, element) ==
    [elements |-> els, vector |-> vec, result |-> FALSE]

applyOperationKeepsTombstone(els, vec, element) ==
    IF element.id \notin DOMAIN els
          \/ (IF element.deleted THEN deleteApplies(element, els[element.id])
              ELSE shouldApplyOperation(element, els[element.id]))
    THEN [elements |-> MapSet(els, element.id, element),
          vector |-> updateVectorClock(vec, element.userId),
          result |-> TRUE]
    ELSE reject(els, vec, element)
applyOperationByCounter(els, vec, element) ==
    IF element.userId \in DOMAIN vec /\ vec[element.userId] > 0
    THEN reject(els, vec, element)
    ELSE [elements |-> IF element.deleted THEN MapDelete(els, element.id)
                       ELSE MapSet(els, element.id, element),
          vector |-> updateVectorClock(vec, element.userId),
          result |-> TRUE]
\* applyOperation on the store (els, vec): the new map, the new counters and
\* the value returned
applyOperation(els, vec, element) ==
    LET hasExisting == element.id \in DOMAIN els
        accepted == [elements |-> MapSet(els, element.id, element),
                     vector |-> updateVectorClock(vec, element.userId),
                     result |-> TRUE]
        removed == [elements |-> MapDelete(els, element.id),
                    vector |-> updateVectorClock(vec, element.userId),
                    result |-> TRUE]
        rejected == reject(els, vec, element)
    IN IF element.deleted
       THEN IF ~hasExisting \/ deleteApplies(element, els[element.id])
            THEN removed ELSE rejected
       ELSE IF ~hasExisting \/ shouldApplyOperation(element, els[element.id])
            THEN accepted ELSE rejected

\* new CRDTManager(userId)
EmptyMap == [i \in {} |-> 0]
NewVector(userId) == [u \in {userId} |-> 0]
LocalUser == "alice"
PeerUser == "bob"

RECURSIVE mergeInto(_, _, _)
\* merge(remoteElements): applyOperation on each element in array order
mergeInto(els, vec, remoteElements) ==
    IF remoteElements = <<>> THEN [elements |-> els, vector |-> vec]
    ELSE LET r == applyOperation(els, vec, Head(remoteElements))
         IN mergeInto(r.elements, r.vector, Tail(remoteElements))

\* the store a replica holds after merge(ops) on a new CRDTManager
StoreAfter(userId, ops) == mergeInto(EmptyMap, NewVector(userId), ops)

(***************************************************************************)
(* Specification SpecResolver: applyOperation as a function of the stored  *)
(* element and the incoming operation.  The store starts as a new manager  *)
(* that has applied at most one operation on the id; one operation is then *)
(* applied, and may be delivered a second time.                            *)
(***************************************************************************)
ResolverIds == {"e1"}
ResolverOps == Operations(ResolverIds)

(***************************************************************************)
(* WebSocketService: constants and construction.  Times are in ms.         *)
(***************************************************************************)
maxReconnectAttempts == 5
reconnectDelay == 1000
HeartbeatMs == 30000
SyncRequestMs == 10000
DrawingEndMs == 500
\* time advances in steps of half the quiet period
TimeStep == DrawingEndMs \div 2
NoTimer == -1
Rooms == {"roomA", "roomB"}

\* new WebSocketService(clientId, roomId), nothing called yet
InitService ==
    /\ socket = 0
    /\ roomId = "roomA"
    /\ currentUrl = ""
    /\ reconnectAttempts = 0
    /\ heartbeatInterval = NoTimer
    /\ syncRequestInterval = NoTimer
    /\ isDrawing = FALSE
    /\ drawingEndTimeout = "null"
    /\ pendingOperations = <<>>
    /\ sockets = <<>>
    /\ reconnectTimers = <<>>
    /\ drawingEndTimer = NoTimer
    /\ event = [name |-> "new", room |-> "roomA"]
    /\ flushed = FALSE
    /\ emitted = <<>>
    /\ opened = <<>>
    /\ armed = <<>>
    /\ closeCount = 0
    /\ burst = <<>>
    /\ sinceSend = 0
    /\ switchCount = 0
    /\ sessionFirst = 0

\* no object is shared with a caller
NoHeap ==
    /\ heap = <<>> /\ refs = EmptyMap /\ handed = {}
    /\ returned = [kind |-> "none", value |-> <<>>]

\* useState(new Map()); the handler has not been called
NoMessage ==
    /\ whiteboardElements = EmptyMap
    /\ lastMessage = [type |-> "none"]
    /\ handled = 0
    /\ undecodable = 0

NoReplicas ==
    /\ InitService
    /\ NoHeap
    /\ NoMessage
    /\ overwritten = FALSE
    /\ peerElements = EmptyMap /\ peerVector = NewVector(PeerUser)
    /\ opSet = {} /\ delivered = <<>> /\ peerDelivered = <<>>

InitStore(seed) ==
    LET s == StoreAfter(LocalUser, seed) IN
    /\ elements = s.elements /\ vector = s.vector
    /\ baseElements = s.elements /\ baseVector = s.vector
    /\ prevElements = s.elements /\ prevVector = s.vector
    /\ phase = "init" /\ log = <<>>

InitResolver ==
    /\ \E seed \in {<<>>} \cup { <<e>> : e \in Upserts(ResolverIds) } : InitStore(seed)
    /\ NoReplicas

\* crdtManager.applyOperation(element)
ApplyOperation(element) ==
    LET r == applyOperation(elements, vector, element) IN
    /\ elements' = r.elements
    /\ vector' = r.vector
    /\ prevElements' = elements
    /\ prevVector' = vector
    /\ log' = Append(log, [op |-> element, result |-> r.result])
    /\ phase' = "applyOperation"
    /\ UNCHANGED <<baseElements, baseVector>>
    /\ UNCHANGED <<replicaVars, transportVars, aliasVars, boardVars, managerVars>>

\* the operation just accepted arrives once more (the relay gives no
\* exactly-once delivery) and is applied again
Redeliver ==
    /\ phase = "applyOperation"
    /\ Len(log) = 1
    /\ log[1].result
    /\ ApplyOperation(log[1].op)

ApplyOne ==
    /\ phase = "init"
    /\ \E element \in ResolverOps : ApplyOperation(element)

NextResolver == ApplyOne \/ Redeliver

SpecResolver == InitResolver /\ [][NextResolver]_vars


(***************************************************************************)
(* The last applyOperation call: its operation, the element stored under   *)
(* the operation's id before the call, and the value returned.             *)
(***************************************************************************)
Called == Len(log) > 0
LastOp == log[Len(log)].op
LastResult == log[Len(log)].result
HadExisting == LastOp.id \in DOMAIN prevElements
Existing == prevElements[LastOp.id]
Stored == LastOp.id \in DOMAIN elements
Gap == Abs(LastOp.timestamp - Existing.timestamp)

\* C2: a delete is accepted iff the id has no stored element or the delete's
\* timestamp is strictly greater than the stored one; when accepted the id is
\* absent afterwards, when rejected the stored element is unchanged.
C2_DeleteRule ==
    (Called /\ LastOp.deleted) =>
        /\ LastResult <=> (~HadExisting \/ LastOp.timestamp > Existing.timestamp)
        /\ LastResult => ~Stored
        /\ ~LastResult => (Stored /\ elements[LastOp.id] = Existing)
C2_Witness ==
    /\ Called /\ LastOp.deleted /\ LastResult
    /\ HadExisting /\ LastOp.timestamp > Existing.timestamp /\ ~Stored

\* C3: for a non-deleted operation and a stored element whose timestamps are
\* more than 1000 ms apart, applyOperation accepts iff the incoming timestamp
\* is the greater one, whatever the kinds, payloads and authors; an accepted
\* operation replaces the stored element.
C3_LargeGapLWW ==
    (Called /\ ~LastOp.deleted /\ HadExisting /\ Gap > 1000) =>
        /\ LastResult <=> (LastOp.timestamp > Existing.timestamp)
        /\ LastResult => (Stored /\ elements[LastOp.id] = LastOp)
        /\ ~LastResult => (Stored /\ elements[LastOp.id] = Existing)
C3_Witness ==
    /\ Called /\ ~LastOp.deleted /\ HadExisting
    /\ LastOp.timestamp >= Existing.timestamp + 1500
    /\ LastOp.userId # Existing.userId /\ LastOp.type # Existing.type
    /\ LastResult /\ elements[LastOp.id] = LastOp

\* C4 as stated: of two non-deleted operations on one id with equal
\* timestamps, one by alice and one by bob, the store ends holding bob's,
\* whichever is applied first, for every kind and payload.
TiedPair ==
    /\ Len(log) = 1 /\ ~LastOp.deleted /\ HadExisting
    /\ LastOp.timestamp = Existing.timestamp
    /\ {LastOp.userId, Existing.userId} = {"alice", "bob"}
BobsOperation == IF LastOp.userId = "bob" THEN LastOp ELSE Existing
C4_BobAlwaysWins ==
    TiedPair => (Stored /\ elements[LastOp.id] = BobsOperation)
\* C4 as amended: the same, for the pairs the author tiebreak decides: no
\* pen or eraser stroke meeting another drawing element, and both elements
\* equally complete.
StrokeMeetsDrawing(a, b) ==
    /\ a.type = "drawing" /\ b.type = "drawing"
    /\ (IsStrokeTool(a.data.tool) \/ IsStrokeTool(b.data.tool))
C4_AuthorTiebreak ==
    ( /\ TiedPair
      /\ ~StrokeMeetsDrawing(LastOp, Existing)
      /\ isElementComplete(LastOp) = isElementComplete(Existing) )
    => (Stored /\ elements[LastOp.id] = BobsOperation)
C4_Witness ==
    /\ TiedPair
    /\ ~StrokeMeetsDrawing(LastOp, Existing)
    /\ isElementComplete(LastOp) = isElementComplete(Existing)
    /\ LastOp.userId = "alice" /\ ~LastResult
    /\ LastOp.type = "drawing" /\ Existing.type = "markdown"
    /\ elements[LastOp.id] = Existing

\* C5 as stated: a stored rectangle, circle or line and an incoming drawing
\* operation that is no stroke, at most 500 ms apart, exactly one of them
\* complete: the complete one is in the store afterwards.
ShapeCase ==
    /\ Called /\ HadExisting
    /\ Existing.type = "drawing"
    /\ Existing.data.tool \in {"rectangle", "circle", "line"}
    /\ LastOp.type = "drawing" /\ ~IsStrokeTool(LastOp.data.tool)
    /\ Gap <= 500
    /\ isElementComplete(LastOp) # isElementComplete(Existing)
CompleteOne == IF isElementComplete(LastOp) THEN LastOp ELSE Existing
C5_CompleteShapeKept ==
    ShapeCase => (Stored /\ elements[LastOp.id] = CompleteOne)
\* C5 as amended: the same for an incoming operation that is not a delete.
C5_CompleteShapeKeptUpsert ==
    (ShapeCase /\ ~LastOp.deleted) => (Stored /\ elements[LastOp.id] = CompleteOne)
\* a rectangle with only its start coordinates, newer than the complete
\* rectangle stored and by the greater author, is rejected
C5_Witness ==
    /\ ShapeCase /\ ~LastOp.deleted
    /\ LastOp.data.tool = "rectangle" /\ Existing.data.tool = "rectangle"
    /\ ~IsDefined(LastOp.data.endX) /\ isElementComplete(Existing)
    /\ LastOp.timestamp > Existing.timestamp
    /\ StrGreater(LastOp.userId, Existing.userId)
    /\ ~LastResult /\ elements[LastOp.id] = Existing

\* C6: a stored text block and an incoming text-block operation at most
\* 500 ms apart, exactly one of them with non-empty trimmed content: the one
\* with content is in the store afterwards.
TextCase ==
    /\ Called /\ HadExisting
    /\ Existing.type = "markdown" /\ LastOp.type = "markdown"
    /\ Gap <= 500
    /\ isElementComplete(LastOp) # isElementComplete(Existing)
C6_CompleteTextKept ==
    (TextCase /\ ~LastOp.deleted) => (Stored /\ elements[LastOp.id] = CompleteOne)

\* C7 as stated: applying an accepted operation a second time leaves the
\* element map and the per-author counters as they were after the first.
Redelivered == Len(log) = 2 /\ log[1].op = log[2].op /\ log[1].result
C7_Idempotent ==
    Redelivered => (elements = prevElements /\ vector = prevVector)
\* C7 as amended: the element map is the same; the counters are the same
\* unless the operation is a delete, which is accepted again and counted again.
C7_IdempotentMap ==
    Redelivered =>
        /\ elements = prevElements
        /\ ~LastOp.deleted => (vector = prevVector /\ ~LastResult)
        /\ LastOp.deleted => vector = updateVectorClock(prevVector, LastOp.userId)
C7_Witness ==
    /\ Redelivered /\ ~LastOp.deleted /\ ~LastResult
    /\ LastOp.id \in DOMAIN baseElements
    /\ elements[LastOp.id] = LastOp /\ vector = prevVector


(***************************************************************************)
(* Specification SpecPair: two applyOperation calls in a row on a store    *)
(* that holds at most one element under each of two ids.                   *)
(***************************************************************************)
PairPayloads ==
    { Shape("rectangle", Some(0), Some(0), Some(10), Some(10)),
      Shape("rectangle", Some(0), Some(0), Undefined, Undefined) }
PairTimestamps == {0, TickMs}
PairUpserts(I) ==
    { Element(id, "drawing", d, ts, u, FALSE) :
        id \in I, d \in PairPayloads, ts \in PairTimestamps, u \in UserIds }
PairOps ==
    PairUpserts(ElementIds)
    \cup { Element(id, "drawing", Shape("rectangle", Some(0), Some(0), Some(10), Some(10)),
                   ts, u, TRUE) :
             id \in ElementIds, ts \in PairTimestamps, u \in UserIds }
PairSeeds ==
    {<<>>}
    \cup { <<a>> : a \in PairUpserts(ElementIds) }
    \cup { <<a, b>> : a \in PairUpserts({"e1"}), b \in PairUpserts({"e2"}) }

InitPair ==
    /\ \E seed \in PairSeeds : InitStore(seed)
    /\ NoReplicas

ApplyInTurn ==
    /\ Len(log) < 2
    /\ \E element \in PairOps : ApplyOperation(element)

NextPair == ApplyInTurn

SpecPair == InitPair /\ [][NextPair]_vars

\* C8: two operations A and B with different ids leave the same element map
\* and the same counters whether A or B is applied first.
TwoIds == Len(log) = 2 /\ log[1].op.id # log[2].op.id
C8_Commute ==
    TwoIds =>
        LET swapped == mergeInto(baseElements, baseVector, <<log[2].op, log[1].op>>)
        IN elements = swapped.elements /\ vector = swapped.vector
\* both operations accepted, by different authors, over stored elements
C8_Witness ==
    /\ TwoIds /\ log[1].result /\ log[2].result
    /\ log[1].op.userId # log[2].op.userId
    /\ DOMAIN baseElements = ElementIds
    /\ ~log[1].op.deleted /\ log[2].op.deleted
    /\ DOMAIN elements = {log[1].op.id}

(***************************************************************************)
(* Specification SpecReplicas: two replicas start empty; every operation   *)
(* of one set reaches both, in any order and possibly more than once.      *)
(***************************************************************************)
Range(f) == { f[i] : i \in DOMAIN f }
OpSets == { S \in SUBSET PairOps : Cardinality(S) >= 1 /\ Cardinality(S) <= MaxOpSet }

InitReplicas ==
    /\ InitStore(<<>>)
    /\ InitService
    /\ NoHeap
    /\ NoMessage
    /\ overwritten = FALSE
    /\ peerElements = EmptyMap /\ peerVector = NewVector(PeerUser)
    /\ opSet \in OpSets
    /\ delivered = <<>> /\ peerDelivered = <<>>

\* an operation of the set arrives at the local replica
DeliverLocal(element) ==
    LET r == applyOperation(elements, vector, element) IN
    /\ Len(delivered) < MaxDeliveries
    /\ elements' = r.elements /\ vector' = r.vector
    /\ delivered' = Append(delivered, element)
    /\ UNCHANGED <<phase, log, baseElements, baseVector, prevElements, prevVector>>
    /\ UNCHANGED <<peerElements, peerVector, opSet, peerDelivered>>
    /\ UNCHANGED <<transportVars, aliasVars, boardVars, managerVars>>

\* an operation of the set arrives at the other replica
DeliverPeer(element) ==
    LET r == applyOperation(peerElements, peerVector, element) IN
    /\ Len(peerDelivered) < MaxDeliveries
    /\ peerElements' = r.elements /\ peerVector' = r.vector
    /\ peerDelivered' = Append(peerDelivered, element)
    /\ UNCHANGED crdtVars
    /\ UNCHANGED <<opSet, delivered>>
    /\ UNCHANGED <<transportVars, aliasVars, boardVars, managerVars>>

NextReplicas ==
    \E element \in opSet : DeliverLocal(element) \/ DeliverPeer(element)

SpecReplicas == InitReplicas /\ [][NextReplicas]_vars

\* C1: once both replicas have applied every operation of the set, they hold
\* identical element maps.
AllDelivered == Range(delivered) = opSet /\ Range(peerDelivered) = opSet
C1_Convergence == AllDelivered => elements = peerElements


(***************************************************************************)
(* WebSocketService.  A handler is a function on the record m of the       *)
(* service's fields and of its environment (the sockets and the timers);   *)
(* m.emitted, m.opened and m.armed collect what the handler sent, the      *)
(* sockets it created and the reconnect delays it scheduled.               *)
(***************************************************************************)
Machine ==
    [socket |-> socket, roomId |-> roomId, currentUrl |-> currentUrl,
     reconnectAttempts |-> reconnectAttempts,
     heartbeatInterval |-> heartbeatInterval,
     syncRequestInterval |-> syncRequestInterval,
     isDrawing |-> isDrawing, drawingEndTimeout |-> drawingEndTimeout,
     pendingOperations |-> pendingOperations,
     sockets |-> sockets, reconnectTimers |-> reconnectTimers,
     drawingEndTimer |-> drawingEndTimer,
     emitted |-> <<>>, opened |-> <<>>, armed |-> <<>>]

\* the variables take the fields of m
Becomes(m) ==
    /\ socket' = m.socket /\ roomId' = m.roomId /\ currentUrl' = m.currentUrl
    /\ reconnectAttempts' = m.reconnectAttempts
    /\ heartbeatInterval' = m.heartbeatInterval
    /\ syncRequestInterval' = m.syncRequestInterval
    /\ isDrawing' = m.isDrawing /\ drawingEndTimeout' = m.drawingEndTimeout
    /\ pendingOperations' = m.pendingOperations
    /\ sockets' = m.sockets /\ reconnectTimers' = m.reconnectTimers
    /\ drawingEndTimer' = m.drawingEndTimer
    /\ emitted' = m.emitted /\ opened' = m.opened /\ armed' = m.armed

\* this.socket !== null && this.socket.readyState === WebSocket.OPEN
isConnected(m) == m.socket # 0 /\ m.sockets[m.socket].readyState = "OPEN"

sendMessage(m, message) ==
    IF m.socket # 0 /\ m.sockets[m.socket].readyState = "OPEN"
    THEN [m EXCEPT !.emitted = Append(@, [socket |-> m.socket, message |-> message])]
    ELSE m

Frame(type) == [type |-> type, operations |-> <<>>]
OperationFrame(element) == [type |-> "operation", operations |-> <<element>>]
BatchFrame(operations) == [type |-> "batch_operations", operations |-> operations]

\* setInterval / clearInterval on the field (an interval is only ever started
\* with the field cleared: see NoIntervalOverwritten)
startHeartbeat(m) == [m EXCEPT !.heartbeatInterval = HeartbeatMs]
stopHeartbeat(m) == [m EXCEPT !.heartbeatInterval = NoTimer]
startSyncRequestInterval(m) == [m EXCEPT !.syncRequestInterval = SyncRequestMs]
stopSyncRequestInterval(m) == [m EXCEPT !.syncRequestInterval = NoTimer]

clearDrawingStateOmitted(m) == m
clearDrawingStateKeepsBuffer(m) ==
    [m EXCEPT !.isDrawing = FALSE,
              !.drawingEndTimer = IF m.drawingEndTimeout = "set" THEN NoTimer ELSE @,
              !.drawingEndTimeout = "null"]
clearDrawingState(m) ==
    [m EXCEPT !.isDrawing = FALSE,
              !.pendingOperations = <<>>,
              !.drawingEndTimer = IF m.drawingEndTimeout = "set" THEN NoTimer ELSE @,
              !.drawingEndTimeout = "null"]

\* socket.close(): a socket that is connecting or open starts closing and
\* its close event follows later; on a closing or closed socket nothing happens
closeSocket(m, s) ==
    IF m.sockets[s].readyState \in {"CONNECTING", "OPEN"}
    THEN [m EXCEPT !.sockets[s].readyState = "CLOSING"]
    ELSE m

disconnect(m) ==
    LET m3 == clearDrawingState(stopSyncRequestInterval(stopHeartbeat(m)))
    IN IF m3.socket # 0
       THEN [closeSocket(m3, m3.socket) EXCEPT !.socket = 0]
       ELSE m3

\* the part of connectToRoom that runs at once: disconnect(), new WebSocket
connectToRoom(m, room) ==
    LET m1 == disconnect(m)
        s == Len(m1.sockets) + 1
    IN [m1 EXCEPT !.sockets = Append(@, [room |-> room, readyState |-> "CONNECTING"]),
                  !.socket = s,
                  !.opened = Append(@, s)]

attemptReconnect(m, room) ==
    IF m.reconnectAttempts < maxReconnectAttempts /\ room = m.roomId
    THEN [m EXCEPT !.reconnectAttempts = @ + 1,
                   !.reconnectTimers =
                       Append(@, [room |-> room,
                                  left |-> reconnectDelay * (m.reconnectAttempts + 1)]),
                   !.armed = Append(@, reconnectDelay * (m.reconnectAttempts + 1))]
    ELSE m

\* socket.onopen of a socket created for room
onopen(m) ==
    sendMessage(
        startSyncRequestInterval(startHeartbeat([m EXCEPT !.reconnectAttempts = 0])),
        Frame("sync_request"))

\* socket.onclose of a socket created for room
onclose(m, room) ==
    attemptReconnect(
        clearDrawingState(stopSyncRequestInterval(stopHeartbeat(m))), room)

\* element.type === 'pen'
shouldSendImmediately(element) == element.type = "pen"

markDrawingStart(m) == IF ~m.isDrawing THEN [m EXCEPT !.isDrawing = TRUE] ELSE m

\* clearTimeout of the stored id, then a new timeout of 500 ms (the pending
\* timeout is always the one the field refers to)
scheduleDrawingEnd(m) ==
    [m EXCEPT !.drawingEndTimer = DrawingEndMs, !.drawingEndTimeout = "set"]

SelectNotImmediate(operations) ==
    SelectSeq(operations, LAMBDA op : ~shouldSendImmediately(op))

handleDrawingEndKeepsBuffer(m) ==
    IF m.isDrawing
    THEN LET m1 == [m EXCEPT !.isDrawing = FALSE]
             operationsToSync == SelectNotImmediate(m.pendingOperations)
         IN IF Len(operationsToSync) > 0
            THEN sendMessage(m1, BatchFrame(operationsToSync))
            ELSE m1
    ELSE m
handleDrawingEnd(m) ==
    IF m.isDrawing
    THEN LET m1 == [m EXCEPT !.isDrawing = FALSE]
             operationsToSync == SelectNotImmediate(m.pendingOperations)
             m2 == IF Len(operationsToSync) > 0
                   THEN sendMessage(m1, BatchFrame(operationsToSync))
                   ELSE m1
         IN [m2 EXCEPT !.pendingOperations = <<>>]
    ELSE m

sendOperation(m, element) ==
    LET m1 == markDrawingStart(m)
        m2 == IF shouldSendImmediately(element)
              THEN sendMessage(m1, OperationFrame(element))
              ELSE m1
        m3 == [m2 EXCEPT !.pendingOperations = Append(@, element)]
    IN scheduleDrawingEnd(m3)

forceDrawingEnd(m) == IF m.isDrawing THEN handleDrawingEnd(m) ELSE m

requestSyncUngated(m) == sendMessage(m, Frame("sync_request"))
requestSync(m) == IF ~m.isDrawing THEN sendMessage(m, Frame("sync_request")) ELSE m


(***************************************************************************)
(* Specification SpecTransport: the calls made on the service, the socket  *)
(* events and the timers.                                                  *)
(***************************************************************************)
\* the elements passed to sendOperation: a freehand stroke as the canvas
\* builds it (type 'drawing', data.tool 'pen'; the service reads no field but
\* type, so other drawing elements behave alike), and an element whose type
\* field is 'pen', which the declared type of WhiteboardElement excludes but
\* JavaScript does not
SendKinds ==
    { [type |-> "drawing", tool |-> "pen"],
      [type |-> "pen", tool |-> "pen"] }
Ev(name, room) == [name |-> name, room |-> room]

\* the step of a handler other than sendOperation: the calls of the drawing
\* session are remembered until the session has ended
Quiet ==
    /\ burst' = IF isDrawing' \/ flushed' \/ isDrawing THEN burst ELSE <<>>
    /\ sinceSend' = IF drawingEndTimer' # NoTimer \/ event'.name = "drawingEndTimer"
                    THEN sinceSend ELSE 0
    /\ UNCHANGED <<switchCount, sessionFirst>>

\* wsService.connect(url), called once
Connect ==
    /\ currentUrl = ""
    /\ Becomes(connectToRoom([Machine EXCEPT !.currentUrl = "origin"], roomId))
    /\ event' = Ev("connect", roomId) /\ flushed' = FALSE
    /\ sessionFirst' = Len(sockets')
    /\ UNCHANGED <<closeCount, burst, sinceSend, switchCount>>

\* wsService.switchRoom(newRoomId)
SwitchRoom(newRoomId) ==
    /\ currentUrl # ""
    /\ Becomes(connectToRoom([Machine EXCEPT !.roomId = newRoomId,
                                             !.reconnectAttempts = 0], newRoomId))
    /\ event' = Ev("switchRoom", newRoomId) /\ flushed' = FALSE
    /\ closeCount' = 0
    /\ burst' = IF isDrawing' \/ isDrawing THEN burst ELSE <<>>
    /\ switchCount' = switchCount + 1
    /\ sessionFirst' = Len(sockets')
    /\ sinceSend' = IF drawingEndTimer' # NoTimer THEN sinceSend ELSE 0

\* wsService.disconnect()
Disconnect ==
    /\ currentUrl # ""
    /\ socket # 0
    /\ Becomes(disconnect(Machine))
    /\ event' = Ev("disconnect", roomId) /\ flushed' = FALSE
    /\ Quiet /\ UNCHANGED closeCount

\* the connection of socket s is established: onopen
SocketOpens(s) ==
    /\ sockets[s].readyState = "CONNECTING"
    /\ Becomes(onopen([Machine EXCEPT !.sockets[s].readyState = "OPEN"]))
    /\ event' = Ev("open", sockets[s].room) /\ flushed' = FALSE
    /\ closeCount' = 0
    /\ Quiet

\* socket s is closed: its connection failed, the peer or the network closed
\* it, or the close that close() started has completed: onclose
SocketCloses(s) ==
    /\ sockets[s].readyState \in {"CONNECTING", "OPEN", "CLOSING"}
    /\ Becomes(onclose([Machine EXCEPT !.sockets[s].readyState = "CLOSED"],
                       sockets[s].room))
    /\ event' = Ev("close", sockets[s].room) /\ flushed' = FALSE
    /\ closeCount' = IF sockets[s].room = roomId THEN closeCount + 1 ELSE closeCount
    /\ Quiet

RemoveAt(seq, i) == SubSeq(seq, 1, i - 1) \o SubSeq(seq, i + 1, Len(seq))

\* the setTimeout callback of attemptReconnect
ReconnectTimerFires(i) ==
    /\ reconnectTimers[i].left = 0
    /\ LET room == reconnectTimers[i].room
           m == [Machine EXCEPT !.reconnectTimers = RemoveAt(@, i)]
       IN /\ Becomes(IF room = m.roomId THEN connectToRoom(m, room) ELSE m)
          /\ event' = Ev("reconnectTimer", room)
    /\ flushed' = FALSE
    /\ Quiet /\ UNCHANGED closeCount

\* the setInterval callback of startHeartbeat
HeartbeatFires ==
    /\ heartbeatInterval = 0
    /\ LET m == [Machine EXCEPT !.heartbeatInterval = HeartbeatMs]
       IN Becomes(IF isConnected(m) THEN sendMessage(m, Frame("ping")) ELSE m)
    /\ event' = Ev("heartbeat", roomId) /\ flushed' = FALSE
    /\ Quiet /\ UNCHANGED closeCount

\* the setInterval callback of startSyncRequestInterval
SyncRequestFires ==
    /\ syncRequestInterval = 0
    /\ LET m == [Machine EXCEPT !.syncRequestInterval = SyncRequestMs]
       IN Becomes(IF isConnected(m) /\ ~m.isDrawing
                  THEN sendMessage(m, Frame("sync_request")) ELSE m)
    /\ event' = Ev("syncTimer", roomId) /\ flushed' = FALSE
    /\ Quiet /\ UNCHANGED closeCount

\* the setTimeout callback of scheduleDrawingEnd
DrawingEndFires ==
    /\ drawingEndTimer = 0
    /\ Becomes(handleDrawingEnd([Machine EXCEPT !.drawingEndTimer = NoTimer]))
    /\ event' = Ev("drawingEndTimer", roomId) /\ flushed' = isDrawing
    /\ Quiet /\ UNCHANGED closeCount

\* wsService.sendOperation(element)
SendOperation(kind) ==
    /\ currentUrl # ""
    /\ (isDrawing => Len(burst) < MaxSends)
    /\ LET element == [type |-> kind.type, tool |-> kind.tool,
                       n |-> IF isDrawing THEN Len(burst) + 1 ELSE 1]
           m == sendOperation(Machine, element)
           entry == [op |-> element,
                     immediate |-> m.emitted # <<>>,
                     connected |-> isConnected(Machine),
                     room |-> roomId]
       IN /\ Becomes(m)
          /\ burst' = IF isDrawing THEN Append(burst, entry) ELSE <<entry>>
    /\ sinceSend' = 0
    /\ event' = Ev("sendOperation", roomId) /\ flushed' = FALSE
    /\ UNCHANGED <<closeCount, switchCount, sessionFirst>>

\* wsService.forceDrawingEnd()
ForceDrawingEnd ==
    /\ currentUrl # ""
    /\ Becomes(forceDrawingEnd(Machine))
    /\ event' = Ev("forceDrawingEnd", roomId) /\ flushed' = isDrawing
    /\ Quiet /\ UNCHANGED closeCount

\* wsService.requestSync()
RequestSync ==
    /\ currentUrl # ""
    /\ Becomes(requestSync(Machine))
    /\ event' = Ev("requestSync", roomId) /\ flushed' = FALSE
    /\ Quiet /\ UNCHANGED closeCount

\* the times left of the armed timers
TimesLeft ==
    ({heartbeatInterval, syncRequestInterval, drawingEndTimer} \ {NoTimer})
    \cup { reconnectTimers[i].left : i \in DOMAIN reconnectTimers }
Min(S) == CHOOSE x \in S : \A y \in S : x <= y
\* Time is followed in steps of TimeStep while a drawing-end timeout is
\* pending; otherwise it goes on to the moment the next timer is due.
Advance == IF drawingEndTimer # NoTimer THEN TimeStep ELSE Min(TimesLeft)
Later(left, d) == IF left = NoTimer THEN NoTimer ELSE left - d

\* time passes; a timer that is due fires before time goes on
Tick ==
    /\ TimesLeft # {}
    /\ 0 \notin TimesLeft
    /\ LET d == Advance IN
       /\ heartbeatInterval' = Later(heartbeatInterval, d)
       /\ syncRequestInterval' = Later(syncRequestInterval, d)
       /\ drawingEndTimer' = Later(drawingEndTimer, d)
       /\ reconnectTimers' = [i \in DOMAIN reconnectTimers |->
                                 [reconnectTimers[i] EXCEPT !.left = @ - d]]
       /\ sinceSend' = IF drawingEndTimer # NoTimer THEN sinceSend + d ELSE 0
    /\ event' = Ev("tick", roomId) /\ flushed' = FALSE
    /\ emitted' = <<>> /\ opened' = <<>> /\ armed' = <<>>
    /\ UNCHANGED <<socket, roomId, currentUrl, reconnectAttempts, isDrawing,
                   drawingEndTimeout, pendingOperations, sockets>>
    /\ UNCHANGED <<closeCount, burst, switchCount, sessionFirst>>

InitTransport ==
    /\ InitStore(<<>>)
    /\ NoReplicas

\* the runs explored: a bounded number of sockets and of switchRoom calls; the
\* store is not touched by the service
TransportBound ==
    /\ Len(sockets') <= MaxSockets
    /\ switchCount' <= MaxSwitches
    /\ UNCHANGED <<crdtVars, replicaVars, aliasVars, boardVars, managerVars>>

NextTransport ==
    \/ Connect /\ TransportBound
    \/ \E r \in Rooms : SwitchRoom(r) /\ TransportBound
    \/ Disconnect /\ TransportBound
    \/ \E s \in DOMAIN sockets : SocketOpens(s) /\ TransportBound
    \/ \E s \in DOMAIN sockets : SocketCloses(s) /\ TransportBound
    \/ \E i \in DOMAIN reconnectTimers : ReconnectTimerFires(i) /\ TransportBound
    \/ HeartbeatFires /\ TransportBound
    \/ SyncRequestFires /\ TransportBound
    \/ DrawingEndFires /\ TransportBound
    \/ \E kind \in SendKinds : SendOperation(kind) /\ TransportBound
    \/ ForceDrawingEnd /\ TransportBound
    \/ RequestSync /\ TransportBound
    \/ Tick /\ TransportBound

SpecTransport == InitTransport /\ [][NextTransport]_vars

(***************************************************************************)
(* Specification SpecReconnect: the service while every connection attempt *)
(* fails: no socket ever opens.                                            *)
(***************************************************************************)
ReconnectBound ==
    /\ Len(sockets') <= MaxFailedSockets
    /\ switchCount' <= MaxFailedSwitches
    /\ UNCHANGED <<crdtVars, replicaVars, aliasVars, boardVars, managerVars>>

NextReconnect ==
    \/ Connect /\ ReconnectBound
    \/ \E r \in Rooms : SwitchRoom(r) /\ ReconnectBound
    \/ \E s \in DOMAIN sockets : SocketCloses(s) /\ ReconnectBound
    \/ \E i \in DOMAIN reconnectTimers : ReconnectTimerFires(i) /\ ReconnectBound
    \/ Tick /\ ReconnectBound

SpecReconnect == InitTransport /\ [][NextReconnect]_vars


\* An interval is started only by onopen, and then the field holds no
\* running interval: while a socket is connecting both fields are clear.
NoIntervalOverwritten ==
    (\E s \in DOMAIN sockets : sockets[s].readyState = "CONNECTING")
        => (heartbeatInterval = NoTimer /\ syncRequestInterval = NoTimer)

\* connection attempts made since the last connect or switchRoom call, the
\* call's own attempt included
Attempts == IF sessionFirst = 0 THEN 0 ELSE Len(sockets) - sessionFirst + 1

\* C9: while every connection attempt fails, the k-th close event in a row
\* (k = 1..5) schedules a retry k x 1000 ms later, the retry opens a socket
\* when its timer fires, and after the fifth retry no further connection
\* attempt is made until switchRoom is called: a session sees its first
\* attempt and at most five retries.
BackoffDelays ==
    /\ (event.name = "close" /\ event.room = roomId) =>
          armed = IF closeCount <= maxReconnectAttempts
                  THEN <<closeCount * 1000>> ELSE <<>>
    /\ (event.name = "reconnectTimer" /\ event.room = roomId) => opened = <<socket>>
RetriesCapped == Attempts <= 1 + maxReconnectAttempts
C9_ReconnectBackoff == BackoffDelays /\ RetriesCapped

\* C10: while connected, the sendOperation calls of one drawing session are
\* followed by exactly one flush, 500 ms after the last call; the
\* batch_operations frame holds, in the order of the calls, exactly the
\* operations that were not sent at once, and no frame of this kind holds an
\* operation that was.
BurstConnected == \A i \in DOMAIN burst : burst[i].connected
NotSentAtOnce ==
    LET kept == SelectSeq(burst, LAMBDA e : ~e.immediate)
    IN [i \in DOMAIN kept |-> kept[i].op]
TimerFlush == event.name = "drawingEndTimer" /\ flushed
\* the session has just ended without a flush: the buffer was discarded; the
\* calls that end a session on request are not part of the claim's case
Dropped == burst # <<>> /\ ~isDrawing /\ ~flushed
Calls == {"connect", "switchRoom", "disconnect", "forceDrawingEnd"}
C10_Batching ==
    /\ isDrawing => drawingEndTimer = DrawingEndMs - sinceSend
    /\ event.name = "drawingEndTimer" =>
          (sinceSend = DrawingEndMs /\ drawingEndTimer = NoTimer)
    /\ flushed => (~isDrawing /\ pendingOperations = <<>>)
    /\ (TimerFlush /\ BurstConnected /\ isConnected(Machine)) =>
          emitted = IF NotSentAtOnce = <<>> THEN <<>>
                    ELSE <<[socket |-> socket, message |-> BatchFrame(NotSentAtOnce)]>>
    /\ \A f \in DOMAIN emitted :
          emitted[f].message.type = "batch_operations" =>
              \A i \in DOMAIN burst :
                  burst[i].immediate =>
                      burst[i].op \notin Range(emitted[f].message.operations)
    /\ ~( /\ Dropped /\ NotSentAtOnce # <<>>
          /\ BurstConnected /\ isConnected(Machine) /\ event.name \notin Calls )


\* C11: a freehand stroke (a drawing element whose tool is pen) passed to
\* sendOperation while the socket is open is emitted at once as an
\* operation message of its own.
LastSent == burst[Len(burst)]
StrokeSent ==
    /\ event.name = "sendOperation"
    /\ LastSent.op.type = "drawing" /\ LastSent.op.tool = "pen"
    /\ LastSent.connected
C11_ImmediatePath ==
    StrokeSent =>
        emitted = <<[socket |-> socket, message |-> OperationFrame(LastSent.op)]>>


\* C12: a reconnect timer armed for a session that fires while another
\* session id is current opens no socket and changes nothing of the service
\* (attempt counter, intervals, drawing buffer, sockets, other timers); and a
\* batch emitted by the drawing-end timer holds only operations enqueued in
\* the current session and goes to a socket of the current session.
StaleReconnectNoOp ==
    (event'.name = "reconnectTimer" /\ event'.room # roomId) =>
        /\ UNCHANGED <<serviceVars, sockets, drawingEndTimer>>
        /\ Len(reconnectTimers') = Len(reconnectTimers) - 1
        /\ opened' = <<>> /\ emitted' = <<>> /\ armed' = <<>>
FlushStaysInSession ==
    \A f \in DOMAIN emitted :
        emitted[f].message.type = "batch_operations" =>
            /\ sockets[emitted[f].socket].room = roomId
            /\ \A i \in DOMAIN burst :
                  burst[i].op \in Range(emitted[f].message.operations)
                      => burst[i].room = roomId
C12_StaleTimerNoOp == [](FlushStaysInSession) /\ [][StaleReconnectNoOp]_vars
\* a timer armed for the room left by switchRoom has fired
C12_Witness ==
    /\ event.name = "reconnectTimer" /\ event.room # roomId
    /\ switchCount = 1 /\ opened = <<>>
    /\ socket # 0 /\ sockets[socket].room = roomId


\* C13: after disconnect(), and until connect() or switchRoom() is called,
\* no handler schedules a reconnect, opens a socket or sends a message; the
\* close event of the socket that disconnect() closed is one such handler.
TornDown == socket = 0 /\ currentUrl # ""
TeardownStep ==
    (TornDown /\ event'.name \notin {"connect", "switchRoom"}) =>
        (armed' = <<>> /\ opened' = <<>> /\ emitted' = <<>>)
C13_TeardownFinal == [][TeardownStep]_vars


\* C14: whenever the current socket is open a heartbeat interval is armed,
\* and each time it elapses on an open socket one ping is sent; a ping is
\* only ever sent on the current socket while it is open.
HeartbeatArmed == heartbeatInterval # NoTimer
C14_Heartbeat ==
    /\ isConnected(Machine) => HeartbeatArmed
    /\ (event.name = "heartbeat" /\ isConnected(Machine)) =>
          emitted = <<[socket |-> socket, message |-> Frame("ping")]>>
    /\ \A f \in DOMAIN emitted :
          emitted[f].message.type = "ping" =>
              (emitted[f].socket = socket /\ isConnected(Machine))


\* C15 as stated: a sync_request is sent only on the open current socket and
\* never while a drawing session is active, whichever handler sends it: the
\* 10 s interval, requestSync() or onopen.
C15_FreshnessGating ==
    \A f \in DOMAIN emitted :
        emitted[f].message.type = "sync_request" =>
            /\ emitted[f].socket = socket /\ isConnected(Machine)
            /\ ~isDrawing

\* C15 as amended: the interval and requestSync() send a sync_request only
\* on the open current socket and only while no drawing session is active;
\* onopen sends one on the socket that opened whether or not a drawing
\* session is active; no other handler sends one.
C15_GatedExceptOnOpen ==
    /\ \A f \in DOMAIN emitted :
          emitted[f].message.type = "sync_request" =>
              /\ emitted[f].socket = socket /\ isConnected(Machine)
              /\ event.name \in {"open", "syncTimer", "requestSync"}
              /\ event.name # "open" => ~isDrawing
    /\ event.name = "open" =>
          emitted = <<[socket |-> socket, message |-> Frame("sync_request")]>>
\* the interval elapses on an open socket during a drawing session: nothing is sent
C15_Witness ==
    /\ event.name = "syncTimer" /\ isConnected(Machine) /\ isDrawing
    /\ emitted = <<>>

(***************************************************************************)
(* The store and its caller as objects.  The Map of a CRDTManager holds    *)
(* references to element objects; applyOperation stores the object it was  *)
(* passed, and the getters build a new Map or Array around the objects the *)
(* Map holds.  heap is the objects allocated, refs the Map, and elements   *)
(* the content of the store read through the references.                   *)
(***************************************************************************)
MaxObjects == 2
AliasIds == {"e1"}
AliasOps == { e \in PairOps : e.id \in AliasIds }

\* the elements a Map of references holds, by value
Deref(r, h) == [id \in DOMAIN r |-> h[r[id]]]

\* getState() and getElements(): new Map(this.elements)
getState(r) == [id \in DOMAIN r |-> r[id]]
getElements(r) == [id \in DOMAIN r |-> r[id]]
\* getAllElements(): Array.from(this.elements.values()).filter(el => !el.deleted)
getAllElements(r, h) ==
    IF "e1" \in DOMAIN r /\ ~h[r["e1"]].deleted THEN <<r["e1"]>> ELSE <<>>
\* getVectorClock(): new Map(this.vectorClock)
getVectorClock(vec) == [u \in DOMAIN vec |-> vec[u]]

InitAlias ==
    /\ InitStore(<<>>)
    /\ NoReplicas

AliasFrame ==
    /\ prevElements' = elements
    /\ prevVector' = vector
    /\ UNCHANGED <<log, baseElements, baseVector>>
    /\ UNCHANGED <<replicaVars, transportVars, boardVars, managerVars>>

\* the caller builds an element object and passes it to applyOperation, which
\* stores that object (this.elements.set(element.id, element)) when it accepts
CallApplyOperation(element) ==
    LET obj == Len(heap) + 1
        r == applyOperation(elements, vector, element) IN
    /\ Len(heap) < MaxObjects
    /\ heap' = Append(heap, element)
    /\ refs' = IF ~r.result THEN refs
               ELSE IF element.deleted THEN MapDelete(refs, element.id)
               ELSE MapSet(refs, element.id, obj)
    /\ vector' = r.vector
    /\ elements' = Deref(refs', heap')
    /\ handed' = handed \cup {obj}
    /\ phase' = "applyOperation"
    /\ UNCHANGED returned
    /\ AliasFrame

\* the caller calls one of the getters and keeps what it returns
CallGetter(kind) ==
    /\ returned' =
          [kind |-> kind,
           value |-> CASE kind = "getState" -> getState(refs)
                       [] kind = "getElements" -> getElements(refs)
                       [] kind = "getAllElements" -> getAllElements(refs, heap)
                       [] kind = "getVectorClock" -> getVectorClock(vector)]
    /\ handed' = IF kind = "getVectorClock" THEN handed
                 ELSE IF kind = "getAllElements"
                      THEN handed \cup Range(getAllElements(refs, heap))
                 ELSE handed \cup Range(refs)
    /\ phase' = kind
    /\ UNCHANGED <<heap, refs, elements, vector>>
    /\ AliasFrame

\* the caller assigns a field of an element object it holds
MutateElement(obj, field, value) ==
    /\ obj \in handed
    /\ heap[obj][field] # value
    /\ heap' = [heap EXCEPT ![obj][field] = value]
    /\ elements' = Deref(refs, heap')
    /\ phase' = "mutate"
    /\ UNCHANGED <<refs, vector, handed, returned>>
    /\ AliasFrame

\* the caller changes the Map or Array a getter returned: set, delete, pop
MutateReturned ==
    /\ returned.kind # "none"
    /\ \E v \in CASE returned.kind \in {"getState", "getElements"} ->
                      { MapDelete(returned.value, id) : id \in DOMAIN returned.value }
                      \cup { MapSet(returned.value, id, obj) : id \in AliasIds, obj \in handed }
                  [] returned.kind = "getAllElements" ->
                      { SubSeq(returned.value, 1, Len(returned.value) - 1) }
                  [] returned.kind = "getVectorClock" ->
                      { MapSet(returned.value, u, 0) : u \in UserIds }
                      \cup { MapDelete(returned.value, u) : u \in DOMAIN returned.value } :
          /\ returned' = [returned EXCEPT !.value = v]
    /\ returned'.value # returned.value
    /\ phase' = "mutateReturned"
    /\ UNCHANGED <<heap, refs, handed, elements, vector>>
    /\ AliasFrame

NextAlias ==
    \/ \E element \in AliasOps : CallApplyOperation(element)
    \/ \E kind \in {"getState", "getElements", "getAllElements", "getVectorClock"} :
          CallGetter(kind)
    \/ \E obj \in DOMAIN heap :
          \/ \E ts \in PairTimestamps : MutateElement(obj, "timestamp", ts)
          \/ \E deleted \in BOOLEAN : MutateElement(obj, "deleted", deleted)
    \/ MutateReturned

SpecAlias == InitAlias /\ [][NextAlias]_vars

\* the store reads its elements through the references of its Map
StoreReadsHeap == elements = Deref(refs, heap)

\* C16: No aliasing: mutating a value returned by getState, getElements,
\* getAllElements or getVectorClock, or an element object after it was passed
\* to applyOperation, never changes the elements or the counters held inside
\* the store.
C16_NoAliasing ==
    phase \in {"mutate", "mutateReturned"} =>
        (elements = prevElements /\ vector = prevVector)

\* C17: Reject leaves state unchanged: whenever applyOperation returns false,
\* the element map and every per-author counter are exactly as before the
\* call.
C17_RejectNoChange ==
    (Called /\ ~LastResult) => (elements = prevElements /\ vector = prevVector)
\* an operation on a stored id was rejected and the store is as it was
C17_Witness ==
    /\ Called /\ ~LastResult /\ HadExisting
    /\ elements = prevElements /\ vector = prevVector
    /\ prevElements # EmptyMap

(***************************************************************************)
(* Specification SpecInbound: the Whiteboard component while its           *)
(* connections stay up.  It mounts (connect), its socket opens, the        *)
(* handler it passed to wsService.onMessage is called with the messages    *)
(* that arrive on the open socket, one after the other, and its room       *)
(* changes.  crdtManager.current is assigned before the handler is         *)
(* installed and never set to null, so the handler always finds a manager: *)
(* elements and vector are its fields, userId is LocalUser.                *)
(***************************************************************************)
MaxMessages == 2
\* senderId?: string, absent
NoSender == "undefined"
Senders == UserIds \cup {NoSender}

InboundOps == PairOps
BatchOps == { e \in PairOps : e.timestamp = 0 /\ e.userId = PeerUser }
SnapshotOps ==
    { e \in PairOps : e.timestamp = TickMs
                      /\ e.data = Shape("rectangle", Some(0), Some(0), Some(10), Some(10)) }
\* message.data.state: an object that holds each element under its id;
\* Object.entries lists its [key, value] pairs in insertion order
Entry(e) == [key |-> e.id, element |-> e]
Snapshots ==
    {<<>>}
    \cup { <<Entry(e)>> : e \in SnapshotOps }
    \cup { <<Entry(p[1]), Entry(p[2])>> :
             p \in { q \in SnapshotOps \X SnapshotOps : q[1].id # q[2].id } }
Batches ==
    { <<e>> : e \in BatchOps }
    \cup { <<p[1], p[2]>> : p \in { q \in BatchOps \X BatchOps : q[1].id = "e1" } }

SyncMessages == { [type |-> "sync", data |-> [state |-> st]] : st \in Snapshots }
OperationMessages ==
    { [type |-> "operation", senderId |-> sender, data |-> e] :
        sender \in Senders, e \in InboundOps }
BatchMessages ==
    { [type |-> "batch_operations", data |-> [operations |-> ops, senderId |-> sender]] :
        ops \in Batches, sender \in Senders }
DeleteMessages ==
    { [type |-> "delete", elementId |-> id] : id \in ElementIds \cup {"e3"} }
IgnoredMessages ==
    { [type |-> t] : t \in {"cursor", "user_joined", "user_left", "pong"} }

RECURSIVE applyEach(_, _, _)
\* forEach(operation => crdtManager.current.applyOperation(operation)): the
\* manager afterwards and the calls made
applyEach(els, vec, ops) ==
    IF ops = <<>> THEN [elements |-> els, vector |-> vec, calls |-> <<>>]
    ELSE LET r == applyOperation(els, vec, Head(ops))
             rest == applyEach(r.elements, r.vector, Tail(ops))
         IN [elements |-> rest.elements, vector |-> rest.vector,
             calls |-> <<[op |-> Head(ops), result |-> r.result]>> \o rest.calls]

\* the values of Object.entries(state), in order
Values(state) == [i \in DOMAIN state |-> state[i].element]
\* newElements after newElements.set(id, el) for every entry
newElements(state) ==
    [k \in { state[i].key : i \in DOMAIN state } |->
        LET last == CHOOSE i \in DOMAIN state :
                        /\ state[i].key = k
                        /\ \A j \in DOMAIN state : state[j].key = k => j <= i
        IN state[last].element]

syncManagerKept(els, vec, userId, state) ==
    applyEach(els, vec, Values(state))
\* crdtManager.current = new CRDTManager(userId), then applyOperation(el) for
\* every entry of the snapshot
syncManager(els, vec, userId, state) ==
    applyEach(EmptyMap, NewVector(userId), Values(state))

fromSelfByAuthor(m, userId) == m.data.userId = userId
\* message.senderId !== userId is false
fromSelf(m, userId) == m.senderId = userId
\* message.data.senderId !== userId is false
batchFromSelf(m, userId) == m.data.senderId = userId

deleteElementClears(els, elementId) == EmptyMap
\* deleteElement(elementId): this.elements.delete(elementId)
deleteElement(els, elementId) == MapDelete(els, elementId)

InitInbound ==
    /\ InitStore(<<>>)
    /\ NoReplicas

InboundFrame(m) ==
    /\ handled' = handled + 1
    /\ UNCHANGED undecodable
    /\ lastMessage' = m
    /\ phase' = m.type
    /\ prevElements' = elements
    /\ prevVector' = vector
    /\ UNCHANGED <<baseElements, baseVector>>
    /\ UNCHANGED <<replicaVars, transportVars, aliasVars, managerVars>>

\* message.type === 'sync'
OnSync(m) ==
    LET r == syncManager(elements, vector, LocalUser, m.data.state) IN
    /\ elements' = r.elements
    /\ vector' = r.vector
    /\ log' = r.calls
    /\ whiteboardElements' = newElements(m.data.state)
    /\ InboundFrame(m)

\* message.type === 'operation'
OnOperation(m) ==
    LET r == applyEach(elements, vector, <<m.data>>) IN
    /\ IF ~fromSelf(m, LocalUser)
       THEN /\ elements' = r.elements
            /\ vector' = r.vector
            /\ log' = r.calls
            /\ whiteboardElements' = getState(elements')
       ELSE /\ log' = <<>>
            /\ UNCHANGED <<elements, vector, whiteboardElements>>
    /\ InboundFrame(m)

\* message.type === 'batch_operations'
OnBatchOperations(m) ==
    LET r == applyEach(elements, vector, m.data.operations) IN
    /\ IF ~batchFromSelf(m, LocalUser)
       THEN /\ elements' = r.elements
            /\ vector' = r.vector
            /\ log' = r.calls
            /\ whiteboardElements' = getState(elements')
       ELSE /\ log' = <<>>
            /\ UNCHANGED <<elements, vector, whiteboardElements>>
    /\ InboundFrame(m)

\* message.type === 'delete'
OnDelete(m) ==
    /\ elements' = deleteElement(elements, m.elementId)
    /\ whiteboardElements' = MapDelete(whiteboardElements, m.elementId)
    /\ log' = <<>>
    /\ UNCHANGED vector
    /\ InboundFrame(m)

\* any other message.type: no branch of the handler is taken
OnIgnored(m) ==
    /\ log' = <<>>
    /\ UNCHANGED <<elements, vector, whiteboardElements>>
    /\ InboundFrame(m)

\* event.data of frames that are not JSON text: JSON.parse(event.data) throws
MalformedFrames == {"", "{\"type\":"}

onmessageCatchDisconnects(m) == disconnect(m)
\* catch (error) { console.error('Error parsing message:', error); }
onmessageCatch(m) == m

\* socket.onmessage with a frame that JSON.parse rejects: the callback of the
\* component is not called, the catch block runs
OnMalformed(data) ==
    /\ data \in MalformedFrames
    /\ Becomes(onmessageCatch(Machine))
    /\ UNCHANGED <<event, flushed, closeCount, burst, sinceSend, switchCount,
                   sessionFirst>>
    /\ handled' = handled + 1
    /\ undecodable' = undecodable + 1
    /\ lastMessage' = [type |-> "none"]
    /\ phase' = "parseError"
    /\ log' = <<>>
    /\ prevElements' = elements
    /\ prevVector' = vector
    /\ UNCHANGED <<elements, vector, whiteboardElements>>
    /\ UNCHANGED <<baseElements, baseVector>>
    /\ UNCHANGED <<replicaVars, aliasVars, managerVars>>

\* the first effect of the component: new CRDTManager, new WebSocketService,
\* onMessage(handler), connect(window.location.origin)
Mount ==
    /\ Connect
    /\ lastMessage' = [type |-> "none"]
    /\ UNCHANGED <<whiteboardElements, handled, undecodable>>
    /\ UNCHANGED <<crdtVars, replicaVars, aliasVars, managerVars>>

\* the current socket opens: onopen, then the continuation the component
\* attached to the promise of connect() or switchRoom() sends a sync_request
\* of its own
ComponentSocketOpens ==
    /\ socket # 0 /\ sockets[socket].readyState = "CONNECTING"
    /\ Becomes(sendMessage(onopen([Machine EXCEPT !.sockets[socket].readyState = "OPEN"]),
                           Frame("sync_request")))
    /\ event' = Ev("open", sockets[socket].room) /\ flushed' = FALSE
    /\ closeCount' = 0
    /\ Quiet
    /\ lastMessage' = [type |-> "none"]
    /\ UNCHANGED <<whiteboardElements, handled, undecodable>>
    /\ UNCHANGED <<crdtVars, replicaVars, aliasVars, managerVars>>

\* the effect on [roomId, userId] when the room of the component changes:
\* setElements(new Map()), crdtManager.current = new CRDTManager(userId),
\* wsService.current.switchRoom(roomId)
RoomChange(newRoomId) ==
    /\ newRoomId # roomId
    /\ whiteboardElements' = EmptyMap
    /\ elements' = EmptyMap
    /\ vector' = NewVector(LocalUser)
    /\ SwitchRoom(newRoomId)
    /\ log' = <<>>
    /\ phase' = "roomChange"
    /\ prevElements' = elements
    /\ prevVector' = vector
    /\ lastMessage' = [type |-> "none"]
    /\ UNCHANGED <<handled, undecodable>>
    /\ UNCHANGED <<baseElements, baseVector>>
    /\ UNCHANGED <<replicaVars, aliasVars, managerVars>>

\* the messages of one run, each delivered by the open socket of the service
InboundBound == handled < MaxMessages /\ isConnected(Machine)
\* the room changes of one run
RoomChangeBound == switchCount < MaxSwitches

NextInbound ==
    \/ Mount
    \/ ComponentSocketOpens
    \/ RoomChangeBound /\ \E r \in Rooms : RoomChange(r)
    \/ InboundBound /\ \E m \in SyncMessages : OnSync(m)
    \/ InboundBound /\ \E m \in OperationMessages : OnOperation(m)
    \/ InboundBound /\ \E m \in BatchMessages : OnBatchOperations(m)
    \/ InboundBound /\ \E m \in DeleteMessages : OnDelete(m)
    \/ InboundBound /\ \E m \in IgnoredMessages : OnIgnored(m)
    \/ InboundBound /\ \E data \in MalformedFrames : OnMalformed(data)

SpecInbound == InitInbound /\ [][NextInbound]_vars

\* the elements of the snapshot last received, and those not marked deleted
SnapshotElements == Range(Values(lastMessage.data.state))
SnapshotLive == { e \in SnapshotElements : ~e.deleted }

\* C18: Inbound full snapshot: after a sync message is handled the element
\* map of the replica holds exactly the non-deleted entries of the snapshot
\* under their ids, and the counters are those of a new manager that has seen
\* the entries of the snapshot and nothing else, whatever the replica held
\* before the message.
C18_SyncSnapshot ==
    lastMessage.type = "sync" =>
        /\ DOMAIN elements = { e.id : e \in SnapshotLive }
        /\ \A e \in SnapshotLive : elements[e.id] = e
        /\ DOMAIN vector = {LocalUser} \cup { e.userId : e \in SnapshotElements }
        /\ \A u \in DOMAIN vector :
              vector[u] = Cardinality({ e \in SnapshotElements : e.userId = u })
\* a snapshot with a live and a deleted entry arrives at a replica that holds
\* an element the snapshot lacks and larger counters
C18_Witness ==
    /\ lastMessage.type = "sync"
    /\ SnapshotLive # {} /\ SnapshotLive # SnapshotElements
    /\ \E id \in DOMAIN prevElements : id \notin DOMAIN elements
    /\ \E u \in DOMAIN prevVector : u \notin DOMAIN vector \/ prevVector[u] > vector[u]

\* C19 as stated: an operation message whose operation's declared author is
\* the local author leaves the element map and the counters unchanged; one
\* from any other author results in exactly one applyOperation call.
C19_EchoSuppression ==
    lastMessage.type = "operation" =>
        /\ lastMessage.data.userId = LocalUser =>
              (elements = prevElements /\ vector = prevVector /\ log = <<>>)
        /\ lastMessage.data.userId # LocalUser => Len(log) = 1

\* C19 as amended: an operation message whose envelope names the local author
\* as its sender (message.senderId) leaves the element map and the counters
\* unchanged, whoever the operation's declared author is; one with any other
\* sender, or none, results in exactly one applyOperation call, on the
\* operation it carries.
C19_EchoBySender ==
    lastMessage.type = "operation" =>
        /\ lastMessage.senderId = LocalUser =>
              (elements = prevElements /\ vector = prevVector /\ log = <<>>)
        /\ lastMessage.senderId # LocalUser =>
              /\ Len(log) = 1 /\ log[1].op = lastMessage.data
              /\ elements = applyOperation(prevElements, prevVector, lastMessage.data).elements
              /\ vector = applyOperation(prevElements, prevVector, lastMessage.data).vector
\* an operation of the local author relayed by another sender was applied
C19_Witness ==
    /\ lastMessage.type = "operation"
    /\ lastMessage.senderId = PeerUser /\ lastMessage.data.userId = LocalUser
    /\ Len(log) = 1 /\ log[1].result
    /\ elements # prevElements

\* C20: Unconditional delete-by-id: after a delete message for id X is
\* handled the store has no entry for X, whatever the timestamp and the
\* author of the element it held, and every other entry and every counter is
\* as before.
C20_DeleteById ==
    lastMessage.type = "delete" =>
        /\ lastMessage.elementId \notin DOMAIN elements
        /\ DOMAIN elements = DOMAIN prevElements \ {lastMessage.elementId}
        /\ \A id \in DOMAIN elements : elements[id] = prevElements[id]
        /\ vector = prevVector
\* the element removed was stored under X next to another one
C20_Witness ==
    /\ lastMessage.type = "delete"
    /\ lastMessage.elementId \in DOMAIN prevElements
    /\ prevElements[lastMessage.elementId].timestamp = TickMs
    /\ elements # EmptyMap

\* C21: right after a close event or disconnect() the pending buffer is
\* empty, no drawing session is active and no drawing-end timeout is pending;
\* and no operation buffered before can be sent later, since a batch holds
\* what the buffer holds when it is flushed and the buffer only grows by the
\* operation of a sendOperation call.
DiscardedNow ==
    event.name \in {"close", "disconnect"} =>
        /\ pendingOperations = <<>> /\ ~isDrawing
        /\ drawingEndTimer = NoTimer /\ drawingEndTimeout = "null"
BatchFromBuffer ==
    \A f \in DOMAIN emitted' :
        emitted'[f].message.type = "batch_operations" =>
            emitted'[f].message.operations = SelectNotImmediate(pendingOperations)
BufferGrowsBySend ==
    pendingOperations' # pendingOperations =>
        \/ pendingOperations' = <<>>
        \/ /\ event'.name = "sendOperation"
           /\ pendingOperations' = Append(pendingOperations, burst'[Len(burst')].op)
C21_DiscardOnDisconnect ==
    []DiscardedNow /\ [][BatchFromBuffer /\ BufferGrowsBySend]_vars
\* a close event has discarded a buffer that held operations not sent at once
C21_Witness ==
    /\ event.name = "close" /\ Dropped /\ NotSentAtOnce # <<>>
    /\ pendingOperations = <<>> /\ drawingEndTimer = NoTimer

\* C22: whenever a drawing session ends by its quiet period or by
\* forceDrawingEnd, the operations of the session that were not sent at once
\* are transmitted in one batch_operations message and the buffer is empty
\* afterwards, also when they were enqueued while the socket was not open.
SessionEnded == flushed /\ event.name \in {"drawingEndTimer", "forceDrawingEnd"}
C22_NoLossOnSessionEnd ==
    SessionEnded =>
        /\ pendingOperations = <<>> /\ ~isDrawing
        /\ NotSentAtOnce # <<>> =>
              /\ isConnected(Machine)
              /\ emitted = <<[socket |-> socket, message |-> BatchFrame(NotSentAtOnce)]>>

(***************************************************************************)
(* Specification SpecManager: the public methods of one CRDTManager called *)
(* in any order.  log is the applyOperation calls made since the manager   *)
(* was built or last cleared.                                              *)
(***************************************************************************)
MaxApplied == 3
ManagerIds == {"e1"}
ManagerOps ==
    { e \in PairOps : e.id \in ManagerIds
                      /\ e.data = Shape("rectangle", Some(0), Some(0), Some(10), Some(10)) }
MergeBatches ==
    { <<e, f>> : e \in { g \in ManagerOps : g.timestamp = 0 },
                 f \in { g \in ManagerOps : g.timestamp = TickMs /\ g.userId = PeerUser } }
\* the maps passed to setVectorClock
VectorClocks ==
    { [u \in {LocalUser} |-> 0], [u \in {LocalUser, PeerUser} |-> 2] }

clearKeepsCounters(els, vec, userId) == [elements |-> EmptyMap, vector |-> vec]
\* clear(): elements.clear(); vector.clear(); vector.set(this.userId, 0)
clear(els, vec, userId) == [elements |-> EmptyMap, vector |-> NewVector(userId)]
\* setVectorClock(vector): this.vector = new Map(vector)
setVectorClock(vec, newVector) == [u \in DOMAIN newVector |-> newVector[u]]
\* merge(remoteElements)
merge(els, vec, remoteElements) == applyEach(els, vec, remoteElements)

InitManager ==
    /\ InitStore(<<>>)
    /\ NoReplicas

ManagerFrame ==
    /\ prevElements' = elements
    /\ prevVector' = vector
    /\ UNCHANGED <<baseElements, baseVector>>
    /\ UNCHANGED <<replicaVars, transportVars, aliasVars, boardVars>>

CallApply(element) ==
    /\ Len(log) < MaxApplied
    /\ ApplyOperation(element)

CallMerge(remoteElements) ==
    LET r == merge(elements, vector, remoteElements) IN
    /\ Len(log) + Len(remoteElements) <= MaxApplied
    /\ elements' = r.elements
    /\ vector' = r.vector
    /\ log' = log \o r.calls
    /\ phase' = "merge"
    /\ UNCHANGED overwritten
    /\ ManagerFrame

CallDeleteElement(elementId) ==
    /\ elements' = deleteElement(elements, elementId)
    /\ phase' = "deleteElement"
    /\ UNCHANGED <<vector, log, overwritten>>
    /\ ManagerFrame

CallClear ==
    LET r == clear(elements, vector, LocalUser) IN
    /\ elements' = r.elements
    /\ vector' = r.vector
    /\ log' = <<>>
    /\ overwritten' = FALSE
    /\ phase' = "clear"
    /\ ManagerFrame

CallSetVectorClock(newVector) ==
    /\ vector' = setVectorClock(vector, newVector)
    /\ overwritten' = TRUE
    /\ phase' = "setVectorClock"
    /\ UNCHANGED <<elements, log>>
    /\ ManagerFrame

NextManager ==
    \/ \E element \in ManagerOps : CallApply(element)
    \/ \E remoteElements \in MergeBatches : CallMerge(remoteElements)
    \/ \E elementId \in ManagerIds \cup {"e2"} : CallDeleteElement(elementId)
    \/ CallClear
    \/ \E newVector \in VectorClocks : CallSetVectorClock(newVector)

SpecManager == InitManager /\ [][NextManager]_vars

\* the counter of an author (0 when the Map has no entry), and the operations
\* declaring the author that applyOperation accepted since the last reset
CounterIn(vec, u) == IF u \in DOMAIN vec THEN vec[u] ELSE 0
AcceptedBy(u) == Cardinality({ i \in DOMAIN log : log[i].result /\ log[i].op.userId = u })
Rejected == phase = "applyOperation" /\ ~LastResult
NeverDecreases ==
    \A u \in UserIds : CounterIn(vector, u) >= CounterIn(prevVector, u)

\* C23 as stated: between resets each author's counter never decreases and
\* equals the number of operations declaring the author that applyOperation
\* accepted since the last reset; a rejected operation and deleteElement
\* change no counter.
C23_CounterBookkeeping ==
    /\ \A u \in UserIds : CounterIn(vector, u) = AcceptedBy(u)
    /\ phase # "clear" => NeverDecreases
    /\ (Rejected \/ phase = "deleteElement") => vector = prevVector

\* C23 as amended: the same, between resets and as long as setVectorClock is
\* not called; setVectorClock replaces the counters by those of the map it is
\* passed, which may be lower.
C23_CountersUnlessOverwritten ==
    /\ ~overwritten => \A u \in UserIds : CounterIn(vector, u) = AcceptedBy(u)
    /\ phase \notin {"clear", "setVectorClock"} => NeverDecreases
    /\ (Rejected \/ phase = "deleteElement") => vector = prevVector
    /\ phase = "setVectorClock" => DOMAIN vector \in { DOMAIN v : v \in VectorClocks }
\* two operations of one author were accepted and a third was rejected
C23_Witness ==
    /\ ~overwritten /\ Rejected
    /\ AcceptedBy(PeerUser) = 2 /\ CounterIn(vector, PeerUser) = 2
    /\ CounterIn(vector, LocalUser) = 0

(***************************************************************************)
(* Specification SpecTwins: two managers that hold the same element under  *)
(* e1, or both none, and differ in their local author, their counters and  *)
(* what they hold under e2, are passed the same operations on e1.          *)
(* delivered and peerDelivered record each call with the value returned.   *)
(***************************************************************************)
MaxTwinCalls == 2
TwinOps == { e \in PairOps : e.id = "e1" }
\* what the two hold under e1
TwinShared == {EmptyMap} \cup { MapSet(EmptyMap, "e1", e) : e \in PairUpserts({"e1"}) }
\* what one of them holds under e2
TwinOthers ==
    { EmptyMap,
      MapSet(EmptyMap, "e2",
             Element("e2", "drawing", Shape("rectangle", Some(0), Some(0), Some(10), Some(10)),
                     TickMs, PeerUser, FALSE)) }
Union2(f, g) == [i \in DOMAIN f \cup DOMAIN g |-> IF i \in DOMAIN f THEN f[i] ELSE g[i]]

InitTwins ==
    /\ \E shared \in TwinShared, mine \in TwinOthers, theirs \in TwinOthers :
          /\ elements = Union2(shared, mine)
          /\ peerElements = Union2(shared, theirs)
          /\ baseElements = elements /\ prevElements = elements
    /\ vector \in { NewVector(LocalUser), [u \in UserIds |-> IF u = LocalUser THEN 3 ELSE 1] }
    /\ peerVector \in { NewVector(PeerUser), [u \in UserIds |-> IF u = LocalUser THEN 1 ELSE 0] }
    /\ baseVector = vector /\ prevVector = vector
    /\ phase = "init" /\ log = <<>>
    /\ opSet = {} /\ delivered = <<>> /\ peerDelivered = <<>>
    /\ InitService /\ NoHeap /\ NoMessage /\ overwritten = FALSE

\* applyOperation(element) on both
ApplyToTwins(element) ==
    LET r == applyOperation(elements, vector, element)
        q == applyOperation(peerElements, peerVector, element) IN
    /\ Len(delivered) < MaxTwinCalls
    /\ elements' = r.elements /\ vector' = r.vector
    /\ peerElements' = q.elements /\ peerVector' = q.vector
    /\ delivered' = Append(delivered, [op |-> element, result |-> r.result])
    /\ peerDelivered' = Append(peerDelivered, [op |-> element, result |-> q.result])
    /\ prevElements' = elements /\ prevVector' = vector
    /\ phase' = "applyOperation"
    /\ UNCHANGED <<log, baseElements, baseVector, opSet>>
    /\ UNCHANGED <<transportVars, aliasVars, boardVars, managerVars>>

NextTwins == \E element \in TwinOps : ApplyToTwins(element)

SpecTwins == InitTwins /\ [][NextTwins]_vars

\* the entry of a map under an id: <<element>>, or <<>> when it has none
EntryAt(els, id) == IF id \in DOMAIN els THEN <<els[id]>> ELSE <<>>
TwinsDiffer == vector # peerVector /\ EntryAt(elements, "e2") # EntryAt(peerElements, "e2")

\* C24: the value applyOperation returns and the entry it leaves under the
\* operation's id depend only on the operation and on the stored element
\* with that id: two managers that differ only in their counters, their
\* local author and their entries for other ids return the same value and
\* hold the same entry afterwards; the other entries are left as they were.
C24_ResolverPurity ==
    /\ \A i \in DOMAIN delivered : delivered[i].result = peerDelivered[i].result
    /\ EntryAt(elements, "e1") = EntryAt(peerElements, "e1")
    /\ EntryAt(elements, "e2") = EntryAt(baseElements, "e2")
\* twins with different counters and different entries under e2 have both
\* rejected an operation on the element they share and both accepted one
C24_Witness ==
    /\ Len(delivered) = 2 /\ TwinsDiffer
    /\ delivered[1].result /\ ~delivered[2].result
    /\ ~peerDelivered[2].result
    /\ CounterIn(vector, PeerUser) > 0 /\ CounterIn(peerVector, LocalUser) > 0

\* an accepted delete under an id and the next applyOperation call, a
\* non-deleted operation under the same id: between the two the id has no
\* entry (deleteElement removes, clear empties the log)
DeleteThenAdd(i) ==
    /\ log[i].op.deleted /\ log[i].result
    /\ ~log[i + 1].op.deleted /\ log[i + 1].op.id = log[i].op.id

\* C25 as stated: once an accepted delete with timestamp Td has removed id X,
\* a later non-deleted operation for X re-creates the element only if its
\* timestamp is newer than Td.
C25_ResurrectionIfNewer ==
    \A i \in 1..(Len(log) - 1) :
        (DeleteThenAdd(i) /\ log[i + 1].result) =>
            log[i + 1].op.timestamp > log[i].op.timestamp

\* C25 as amended: once an accepted delete has removed id X, the next
\* non-deleted operation for X is accepted and stored whatever its timestamp,
\* also when it is older than the delete: the store keeps no trace of the
\* delete to compare with.
C25_ResurrectionAlways ==
    \A i \in 1..(Len(log) - 1) :
        DeleteThenAdd(i) =>
            /\ log[i + 1].result
            /\ (i + 1 = Len(log) /\ phase = "applyOperation") =>
                  EntryAt(elements, log[i].op.id) = <<log[i + 1].op>>
\* an element was stored, deleted by a newer delete and re-created by an add
\* older than the delete
C25_Witness ==
    /\ Len(log) = 3 /\ phase = "applyOperation"
    /\ log[1].result /\ ~log[1].op.deleted
    /\ DeleteThenAdd(2) /\ log[2].op.timestamp > log[1].op.timestamp
    /\ log[3].op.timestamp < log[2].op.timestamp
    /\ EntryAt(elements, "e1") = <<log[3].op>>

\* C26: after clear(), and after every change of room until the first
\* message of the new room is handled, the element map of the replica is
\* empty and its counters are exactly {local author: 0}.
Cleared(r) == r.elements = EmptyMap /\ r.vector = NewVector(LocalUser)
C26_ResetOnSwitch ==
    /\ phase = "roomChange" => Cleared([elements |-> elements, vector |-> vector])
    /\ Cleared(clear(elements, vector, LocalUser))
\* the room changed while the replica held an element and counters of both
\* authors; the socket of the new room is open and no message has arrived
C26_Witness ==
    /\ phase = "roomChange" /\ isConnected(Machine) /\ roomId = "roomB"
    /\ prevElements # EmptyMap
    /\ CounterIn(prevVector, LocalUser) > 0 /\ CounterIn(prevVector, PeerUser) > 0
    /\ elements = EmptyMap /\ vector = NewVector(LocalUser)

\* C27: switchRoom(newId) at once makes newId the current session, leaves
\* every earlier socket closing or closed, sets the attempt counter to 0 and
\* creates a socket for newId; and the budget of retries of the new session
\* is spent on its own failures only: the attempt counter grows only when a
\* socket created since the call is closed.
SwitchNow ==
    event.name = "switchRoom" =>
        /\ roomId = event.room /\ reconnectAttempts = 0
        /\ socket = Len(sockets) /\ opened = <<socket>>
        /\ sockets[socket] = [room |-> roomId, readyState |-> "CONNECTING"]
        /\ \A s \in 1..(socket - 1) : sockets[s].readyState \in {"CLOSING", "CLOSED"}
ClosedInStep(s) ==
    /\ event'.name = "close"
    /\ sockets[s].readyState # "CLOSED" /\ sockets'[s].readyState = "CLOSED"
BudgetStep ==
    reconnectAttempts' > reconnectAttempts =>
        \E s \in DOMAIN sockets : s >= sessionFirst /\ ClosedInStep(s)
C27_SessionSwitch == []SwitchNow /\ [][BudgetStep]_vars

\* C28: Malformed message: a frame that cannot be decoded is dropped: the
\* step that receives it changes neither the element map, the counters, the
\* map the component shows, the fields of the service, the sockets nor the
\* timers, it sends nothing, creates no socket and arms no timer, and afterwards the socket is still the open socket of the service,
\* which delivers the frames that follow.
ParseErrorStep == phase' = "parseError" /\ undecodable' = undecodable + 1
DroppedWhole ==
    ParseErrorStep =>
        /\ UNCHANGED <<elements, vector, whiteboardElements>>
        /\ UNCHANGED <<serviceVars, envVars>>
        /\ emitted' = <<>> /\ opened' = <<>> /\ armed' = <<>>
StillConnected == phase = "parseError" => isConnected(Machine)
C28_MalformedDropped == []StillConnected /\ [][DroppedWhole]_vars
\* an operation message is applied and changes the store after an undecodable
\* frame was dropped on the same connection
C28_Witness ==
    /\ undecodable > 0 /\ lastMessage.type = "operation"
    /\ log # <<>> /\ log[1].result
    /\ elements # prevElements /\ switchCount = 0

\* C29: Concurrent strokes, same author: a non-deleted pen or eraser
\* operation that meets a stored drawing element of the same id and the same
\* author, at most 500 ms apart, is accepted iff its timestamp is strictly
\* greater than the stored one; accepted, it replaces the stored element,
\* rejected, it leaves it.
SameAuthorStroke ==
    /\ Called /\ ~LastOp.deleted /\ HadExisting
    /\ LastOp.type = "drawing" /\ IsStrokeTool(LastOp.data.tool)
    /\ Existing.type = "drawing"
    /\ LastOp.userId = Existing.userId
    /\ Gap <= 500
C29_SameAuthorStrokes ==
    SameAuthorStroke =>
        /\ LastResult <=> (LastOp.timestamp > Existing.timestamp)
        /\ elements[LastOp.id] = IF LastResult THEN LastOp ELSE Existing
\* an older stroke of the same author, starting far from the stored stroke,
\* is rejected
C29_Witness ==
    /\ SameAuthorStroke /\ Len(log) = 1
    /\ IsStrokeTool(Existing.data.tool)
    /\ FirstPos(PathOf(LastOp.data)) = Pt(50, 50)
    /\ FirstPos(PathOf(Existing.data)) = Pt(0, 0)
    /\ LastOp.timestamp + 500 = Existing.timestamp
    /\ ~LastResult /\ elements[LastOp.id] = Existing

\* C30: Concurrent strokes, different authors: a non-deleted pen or eraser
\* operation that meets a stored pen or eraser element of the same id and
\* another author, at most 500 ms apart, is accepted iff it is newer when the
\* first points of the two payloads (the point (0, 0) for a payload without
\* points) are less than 10 units apart on both axes, and is accepted
\* whatever the timestamps otherwise.
OtherAuthorStroke ==
    /\ Called /\ ~LastOp.deleted /\ HadExisting
    /\ LastOp.type = "drawing" /\ IsStrokeTool(LastOp.data.tool)
    /\ Existing.type = "drawing" /\ IsStrokeTool(Existing.data.tool)
    /\ LastOp.userId # Existing.userId
    /\ Gap <= 500
FirstRecorded(data) ==
    LET recorded == IF data.path # Undefined THEN data.path[1]
                    ELSE IF data.points # Undefined THEN data.points[1]
                    ELSE <<>>
    IN IF recorded = <<>> THEN Pt(0, 0) ELSE Head(recorded)
SameTarget ==
    /\ Abs(FirstRecorded(LastOp.data).x - FirstRecorded(Existing.data).x) < 10
    /\ Abs(FirstRecorded(LastOp.data).y - FirstRecorded(Existing.data).y) < 10
C30_OtherAuthorStrokes ==
    OtherAuthorStroke =>
        /\ SameTarget => (LastResult <=> (LastOp.timestamp > Existing.timestamp))
        /\ ~SameTarget => LastResult
        /\ elements[LastOp.id] = IF LastResult THEN LastOp ELSE Existing
\* an older stroke of the other author whose first point is exactly 10 units
\* below the first point of the stored stroke replaces it
C30_Witness ==
    /\ OtherAuthorStroke /\ Len(log) = 1
    /\ FirstRecorded(LastOp.data) = Pt(0, 10)
    /\ FirstRecorded(Existing.data) = Pt(0, 0)
    /\ LastOp.timestamp < Existing.timestamp
    /\ LastResult /\ elements[LastOp.id] = LastOp

\* C31: Mid-gap rule: a non-deleted operation that meets a stored element of
\* the same id whose timestamp is more than 500 ms and at most 1000 ms away
\* is accepted iff its timestamp is the greater one, whatever the kinds, the
\* payloads, their completeness and the authors; accepted, it replaces the
\* stored element, rejected, it leaves it.
MidGap == Called /\ ~LastOp.deleted /\ HadExisting /\ Gap > 500 /\ Gap <= 1000
C31_MidGapLWW ==
    MidGap =>
        /\ LastResult <=> (LastOp.timestamp > Existing.timestamp)
        /\ elements[LastOp.id] = IF LastResult THEN LastOp ELSE Existing
\* a complete rectangle of bob, one second older than the incomplete rectangle
\* alice has stored, is rejected
C31_Witness ==
    /\ MidGap /\ Len(log) = 1
    /\ LastOp.timestamp + 1000 = Existing.timestamp
    /\ LastOp.userId = "bob" /\ Existing.userId = "alice"
    /\ LastOp.type = "drawing" /\ LastOp.data.tool = "rectangle"
    /\ Existing.type = "drawing" /\ Existing.data.tool = "rectangle"
    /\ isElementComplete(LastOp) /\ ~isElementComplete(Existing)
    /\ ~LastResult /\ elements[LastOp.id] = Existing

\* C32: Completeness predicate: isElementComplete is true exactly when: a
\* pen or eraser stroke has more than 2 points; a rectangle or circle has its
\* four endpoint coordinates defined and its start and end more than 5 units
\* apart on each axis; a line has its four endpoint coordinates defined; a
\* markdown element has content with a character that is no whitespace; the
\* element has any other tool or any other type.  Stated for the operation
\* applyOperation was called with and for the stored element it met.
StrokePoints(data) ==
    IF data.path # Undefined THEN data.path[1]
    ELSE IF data.points # Undefined THEN data.points[1]
    ELSE <<>>
EndpointsDefined(data) ==
    /\ data.startX # Undefined /\ data.startY # Undefined
    /\ data.endX # Undefined /\ data.endY # Undefined
Apart(a, b) == IF a[1] > b[1] THEN a[1] - b[1] ELSE b[1] - a[1]
CompleteAsStated(element) ==
    IF element.type = "drawing" /\ element.data.tool \in {"pen", "eraser"}
    THEN Len(StrokePoints(element.data)) >= 3
    ELSE IF element.type = "drawing" /\ element.data.tool \in {"rectangle", "circle"}
    THEN /\ EndpointsDefined(element.data)
         /\ Apart(element.data.endX, element.data.startX) > 5
         /\ Apart(element.data.endY, element.data.startY) > 5
    ELSE IF element.type = "drawing" /\ element.data.tool = "line"
    THEN EndpointsDefined(element.data)
    ELSE IF element.type = "markdown"
    THEN /\ element.data.content # Undefined
         /\ \E i \in DOMAIN element.data.content[1] :
                ~IsWhitespace(element.data.content[1][i])
    ELSE TRUE
C32_CompletenessPredicate ==
    /\ Called => (isElementComplete(LastOp) <=> CompleteAsStated(LastOp))
    /\ (Called /\ HadExisting) =>
           (isElementComplete(Existing) <=> CompleteAsStated(Existing))
\* a circle whose end is exactly 5 units below its start is incomplete and
\* loses to the stored complete rectangle it is concurrent with, although
\* its author id is the greater one
C32_Witness ==
    /\ Called /\ Len(log) = 1 /\ ~LastOp.deleted /\ HadExisting
    /\ LastOp.type = "drawing" /\ LastOp.data.tool = "circle"
    /\ LastOp.data.endY = Some(10) /\ LastOp.data.startY = Some(5)
    /\ ~isElementComplete(LastOp)
    /\ Existing.type = "drawing" /\ Existing.data.tool = "rectangle"
    /\ isElementComplete(Existing)
    /\ LastOp.userId = "bob" /\ Existing.userId = "alice"
    /\ Gap <= 500 /\ ~LastResult

\* C33: Force-end: forceDrawingEnd() called during a drawing session ends it
\* in that call: the session is inactive and the buffer empty afterwards, and
\* with the socket open the buffered operations that were not sent at once
\* leave in one batch message; the quiet-period timer left armed by the last
\* sendOperation, when it fires with no session active, sends nothing and
\* changes no field of the service, no socket and no reconnect timer;
\* forceDrawingEnd() called with no session active sends nothing and changes
\* nothing.
ForceStep == event'.name = "forceDrawingEnd" /\ currentUrl # ""
Batched == SelectSeq(pendingOperations, LAMBDA op : op.type # "pen")
ForceEndsSession ==
    (ForceStep /\ isDrawing) =>
        /\ ~isDrawing' /\ pendingOperations' = <<>>
        /\ emitted' = IF isConnected(Machine) /\ Batched # <<>>
                      THEN <<[socket |-> socket, message |-> BatchFrame(Batched)]>>
                      ELSE <<>>
        /\ UNCHANGED <<socket, roomId, reconnectAttempts, heartbeatInterval,
                       syncRequestInterval, drawingEndTimeout, envVars>>
ForceWithoutSession ==
    (ForceStep /\ ~isDrawing) =>
        /\ UNCHANGED <<serviceVars, envVars>> /\ emitted' = <<>>
LeftoverTimer ==
    (event'.name = "drawingEndTimer" /\ ~isDrawing) =>
        /\ UNCHANGED <<serviceVars, sockets, reconnectTimers>>
        /\ emitted' = <<>> /\ opened' = <<>> /\ armed' = <<>>
C33_ForceEnd == [][ForceEndsSession /\ ForceWithoutSession /\ LeftoverTimer]_vars
\* the timer of a session that forceDrawingEnd() has ended fires on an open
\* socket
C33_Witness ==
    /\ event.name = "drawingEndTimer" /\ ~flushed
    /\ drawingEndTimeout = "set" /\ drawingEndTimer = NoTimer
    /\ ~isDrawing /\ pendingOperations = <<>> /\ emitted = <<>>
    /\ isConnected(Machine)

\* C34: Per-author monotonic writes: a non-deleted operation that meets a
\* stored element of the same id and the same author with a strictly smaller
\* timestamp is accepted and replaces it, for every kind and every gap
\* between the two timestamps.
OwnNewer ==
    /\ Called /\ ~LastOp.deleted /\ HadExisting
    /\ LastOp.userId = Existing.userId
    /\ LastOp.timestamp > Existing.timestamp
C34_OwnNewerAccepted ==
    OwnNewer => (LastResult /\ Stored /\ elements[LastOp.id] = LastOp)

\* C35: Stale socket events: the close event of a socket that a newer socket
\* of the same session has replaced leaves the heartbeat and sync intervals
\* of the service as they are, leaves the drawing session and its buffer as
\* they are, and arms no reconnect timer.
StaleClose(s) ==
    /\ socket # 0 /\ s # socket
    /\ sockets[s].room = roomId /\ sockets[socket].room = roomId
    /\ ClosedInStep(s)
StaleCloseIgnored ==
    (\E s \in DOMAIN sockets : StaleClose(s)) =>
        /\ UNCHANGED <<heartbeatInterval, syncRequestInterval>>
        /\ UNCHANGED <<isDrawing, pendingOperations, drawingEndTimeout, drawingEndTimer>>
        /\ UNCHANGED <<reconnectAttempts, reconnectTimers>> /\ armed' = <<>>
C35_StaleSocketEvents == [][StaleCloseIgnored]_vars

\* C36: Superseded reconnect timers stay dead: a reconnect timer that is
\* pending when switchRoom is called, and fires right after the call, opens
\* no socket, whichever room the call switched to; and at any time at most
\* one pending reconnect timer is armed for the current room.
PendingFor(room) == { i \in DOMAIN reconnectTimers : reconnectTimers[i].room = room }
OneTimerPerSession == Cardinality(PendingFor(roomId)) <= 1
SupersededTimerDead ==
    (event.name = "switchRoom" /\ event'.name = "reconnectTimer") =>
        (opened' = <<>> /\ sockets' = sockets /\ socket' = socket)
C36_SupersededTimers == []OneTimerPerSession /\ [][SupersededTimerDead]_vars

\* C37: No stored tombstones: in every store reached by applyOperation,
\* merge, deleteElement and clear no element of the map has deleted = true,
\* so the elements getAllElements keeps (those not marked deleted) are
\* exactly the values of getState.
Tombstones == { id \in DOMAIN elements : elements[id].deleted }
KeptByGetAll == { elements[id] : id \in DOMAIN elements \ Tombstones }
StateValues == { getState(elements)[id] : id \in DOMAIN getState(elements) }
C37_NoTombstones == Tombstones = {} /\ KeptByGetAll = StateValues
\* a merge whose first operation is a delete that was accepted and whose
\* second operation left an element in the store
C37_Witness ==
    /\ phase = "merge" /\ Len(log) = 2
    /\ log[1].op.deleted /\ log[1].result
    /\ ~log[2].op.deleted /\ log[2].result
    /\ EntryAt(elements, "e1") = <<log[2].op>>

\* C38: Bounded timestamp regression: whenever applyOperation accepts a
\* non-deleted operation over a stored element of the same id whose timestamp
\* is greater than or equal to the operation's, the two timestamps are at
\* most 500 ms apart.
AcceptedOverNewer ==
    /\ Called /\ ~LastOp.deleted /\ HadExisting
    /\ LastResult /\ Existing.timestamp >= LastOp.timestamp
C38_BoundedRegression ==
    AcceptedOverNewer =>
        (Existing.timestamp - LastOp.timestamp <= 500 /\ elements[LastOp.id] = LastOp)
\* a stroke of bob, drawn far from the stored stroke of alice and exactly
\* 500 ms older than it, replaces it
C38_Witness ==
    /\ AcceptedOverNewer /\ Len(log) = 1
    /\ Existing.timestamp = LastOp.timestamp + 500
    /\ LastOp.userId = "bob" /\ Existing.userId = "alice"
    /\ IsStrokeTool(LastOp.data.tool) /\ IsStrokeTool(Existing.data.tool)
    /\ elements[LastOp.id] = LastOp /\ elements[LastOp.id] # Existing

====
